---- MODULE Spec2Model ----
(***************************************************************************)
(* Model of the 1&1 data-volume monitor: DataMonitor (src/src/utils/       *)
(* monitor.py), the rate estimator (src/src/utils/interval_calculator.py)  *)
(* and the portal client ConsumptionAPI (src/src/api/usability.py) with    *)
(* the authenticators of src/src/auth/login.py.                            *)
(*                                                                         *)
(* The monitor runs on one thread: start_monitoring polls once, registers  *)
(* a job with the `schedule` library and loops run_pending()/sleep(1).     *)
(* check_data_usage is modelled in the steps between its portal calls and  *)
(* its lock acquisitions; pc is the position of the main thread.           *)
(* Volumes are whole GB, times whole seconds.                              *)
(***************************************************************************)
EXTENDS Integers, Sequences, FiniteSets, TLC

(* ---- bounds of the model and the monitored configuration ---- *)
HighspeedLimit == 3
ThresholdGb == 1
MaxTs == 2
CheckInterval == 3
FastInterval == 1
MaxInterval == 4
InitialInterval == 2
MaxRetryDepth == 3
PollCap == 2

VARIABLES
    dynamic_interval,        \* DataMonitor.dynamic_interval
    guest_url,               \* TRUE iff the monitor was configured with a guest link
    check_interval_seconds,
    below_threshold,
    first_dynamic_check,
    last_check_data,         \* <<>> (None) or <<snapshot>>
    history_data,            \* <<>> ({}) or <<[letzte_messung, letzte_messung_zeit]>>
    running,
    interval_lock,           \* TRUE iff threading.Lock interval_lock is held
    session,                 \* ConsumptionAPI.session: "none", "user", "guest", "anon"
    store,                   \* accounts with a SessionRecord in the session file
    jobs,                    \* the jobs of the schedule library: [interval, ttl]
    running_job,             \* index in jobs of the job being run, 0 if none or cleared
    pc,                      \* position of the main thread
    ctx,                     \* who called check_data_usage: "initial" or "scheduled"
    summary,                 \* local: <<>> or <<snapshot>> returned by the fetch
    depth,                   \* recursion depth of the portal call in progress
    uci_seconds,             \* argument of the pending update_check_interval call
    uci_ret,                 \* where update_check_interval returns to
    result,                  \* what the last check_data_usage returned
    refill_ok,               \* result["erfolg"] of the last refill
    polls,                   \* check_data_usage invocations since start_monitoring,
                             \* counted up to PollCap
    fetches,                 \* snapshot requests sent in the current cycle
    forbidden,               \* 403 answers to snapshot requests in the current cycle
    reauths,                 \* re-authentications attempted in the current cycle
    refills,                 \* refill operations invoked in the current cycle
    posts,                   \* refill requests sent in the current cycle
    saves,                   \* save_session calls made by the portal requests of
                             \* the current cycle
    interrupted,             \* a KeyboardInterrupt was raised
    original_check_interval_seconds,  \* the configured check_interval_seconds
    est_in,                  \* arguments of one calculate_next_check_interval call
    est_out,                 \* what the calls with est_in returned, in order
    parse_in,                \* the "data" argument of one parse_data_volume call
    parse_out,               \* <<>> or <<what that call returned>>
    session_file,            \* the file SESSION_FILE of ControlCenterAuth
    auth_session,            \* ControlCenterAuth.session of the auth object
    store_calls,             \* the save_session / load_session calls made so far:
                             \* found is the kind of file the call met, probe
                             \* what is_session_valid answers, session is
                             \* self.session when the call returned
    saving,                  \* a save_session call in progress: the step it
                             \* has completed, the contents of the file
                             \* SESSION_FILE.tmp, and what SESSION_FILE held
                             \* when the call began
    main_in,                 \* command line and environment of one run of main
    proc,                    \* how far that run of main has come
    threads                  \* two threads using one running monitor: where
                             \* the one calling update_check_interval and the
                             \* one calling stop_monitoring are, <<>>
                             \* when no such pair is followed

vars == <<dynamic_interval, guest_url, check_interval_seconds, below_threshold,
          first_dynamic_check, last_check_data, history_data, running,
          interval_lock, session, store, jobs, running_job, pc, ctx, summary,
          depth, uci_seconds, uci_ret, result, refill_ok, polls, fetches,
          forbidden, reauths, refills, posts, saves, interrupted,
          original_check_interval_seconds, est_in, est_out, parse_in,
          parse_out, session_file, auth_session, store_calls, saving,
          main_in, proc, threads>>

parseVars == <<parse_in, parse_out>>
storeVars == <<session_file, auth_session, store_calls, saving>>
estVars == <<est_in, est_out>>
mainVars == <<main_in, proc>>
unitVars == <<estVars, parseVars, storeVars, mainVars, threads>>
configVars == <<dynamic_interval, guest_url, interrupted,
                original_check_interval_seconds, unitVars>>
monitorState == <<check_interval_seconds, below_threshold, first_dynamic_check,
                  last_check_data, history_data>>
scheduleVars == <<jobs, running_job, running>>
counterVars == <<polls, fetches, forbidden, reauths, refills, posts, saves>>

(* ---- snapshots: the "datenvolumen" dictionary of parse_data_volume ---- *)
Account == "self"

ZeroSnapshot ==
    [verbraucht_gb |-> 0, highspeed_limit_gb |-> 0, has_ts |-> FALSE,
     aktualisiert_timestamp |-> 0, kann_nachbuchen |-> FALSE]

Snapshots ==
    {ZeroSnapshot} \cup
    [verbraucht_gb : 0..HighspeedLimit, highspeed_limit_gb : {HighspeedLimit},
     has_ts : {TRUE}, aktualisiert_timestamp : 1..MaxTs,
     kann_nachbuchen : BOOLEAN] \cup
    [verbraucht_gb : 0..HighspeedLimit, highspeed_limit_gb : {HighspeedLimit},
     has_ts : {FALSE}, aktualisiert_timestamp : {0},
     kann_nachbuchen : BOOLEAN]

Remaining(s) == s.highspeed_limit_gb - s.verbraucht_gb

Max(a, b) == IF a >= b THEN a ELSE b
Min(a, b) == IF a <= b THEN a ELSE b

(* ---- Python arithmetic of the estimator: IEEE-754 binary64 ---- *)
\* Naturals beyond the range of the model's integers: limbs of LimbBits bits,
\* least significant first, without leading zero limbs (0 is <<>>).
LimbBits == 15
LimbBase == 2 ^ LimbBits

RECURSIVE NatTrim(_)
NatTrim(a) ==
    IF a # <<>> /\ a[Len(a)] = 0 THEN NatTrim(SubSeq(a, 1, Len(a) - 1)) ELSE a

RECURSIVE NatOfInt(_)
NatOfInt(n) ==
    IF n = 0 THEN <<>> ELSE <<n % LimbBase>> \o NatOfInt(n \div LimbBase)

RECURSIVE IntOfNat(_)
IntOfNat(a) ==
    IF a = <<>> THEN 0 ELSE a[1] + LimbBase * IntOfNat(Tail(a))

Limb(a, i) == IF i <= Len(a) THEN a[i] ELSE 0

RECURSIVE NatAddFrom(_, _, _, _)
NatAddFrom(a, b, i, carry) ==
    IF i > Len(a) /\ i > Len(b)
    THEN IF carry = 0 THEN <<>> ELSE <<carry>>
    ELSE LET s == Limb(a, i) + Limb(b, i) + carry
         IN  <<s % LimbBase>> \o NatAddFrom(a, b, i + 1, s \div LimbBase)

NatAdd(a, b) == NatAddFrom(a, b, 1, 0)

\* a - b for a >= b
RECURSIVE NatSubFrom(_, _, _, _)
NatSubFrom(a, b, i, borrow) ==
    IF i > Len(a)
    THEN <<>>
    ELSE LET d == Limb(a, i) - Limb(b, i) - borrow
         IN  IF d < 0
             THEN <<d + LimbBase>> \o NatSubFrom(a, b, i + 1, 1)
             ELSE <<d>> \o NatSubFrom(a, b, i + 1, 0)

NatSub(a, b) == NatTrim(NatSubFrom(a, b, 1, 0))

RECURSIVE NatLessFrom(_, _, _)
NatLessFrom(a, b, i) ==
    IF i = 0 THEN FALSE
    ELSE IF a[i] # b[i] THEN a[i] < b[i]
    ELSE NatLessFrom(a, b, i - 1)

NatLess(a, b) ==
    IF Len(a) # Len(b) THEN Len(a) < Len(b) ELSE NatLessFrom(a, b, Len(a))

\* a * k for a limb k
RECURSIVE NatMulLimbFrom(_, _, _, _)
NatMulLimbFrom(a, k, i, carry) ==
    IF i > Len(a)
    THEN IF carry = 0 THEN <<>> ELSE <<carry>>
    ELSE LET p == a[i] * k + carry
         IN  <<p % LimbBase>> \o NatMulLimbFrom(a, k, i + 1, p \div LimbBase)

NatMulLimb(a, k) == IF k = 0 THEN <<>> ELSE NatMulLimbFrom(a, k, 1, 0)

\* a * LimbBase^n
RECURSIVE NatShiftLimbs(_, _)
NatShiftLimbs(a, n) ==
    IF a = <<>> \/ n = 0 THEN a ELSE <<0>> \o NatShiftLimbs(a, n - 1)

RECURSIVE NatMul(_, _)
NatMul(a, b) ==
    IF a = <<>> \/ b = <<>>
    THEN <<>>
    ELSE NatAdd(NatMulLimb(a, b[1]), NatShiftLimbs(NatMul(a, Tail(b)), 1))

\* the number of bits of a
NatBitLen(a) ==
    IF a = <<>> THEN 0
    ELSE LimbBits * (Len(a) - 1)
         + (CHOOSE k \in 1..LimbBits :
                2 ^ (k - 1) <= a[Len(a)] /\ a[Len(a)] < 2 ^ k)

\* a * 2^n
NatShiftLeft(a, n) ==
    NatShiftLimbs(NatMulLimb(a, 2 ^ (n % LimbBits)), n \div LimbBits)

\* limbs i.. of a \div 2^bits, for bits < LimbBits
RECURSIVE NatShiftBitsFrom(_, _, _)
NatShiftBitsFrom(a, bits, i) ==
    IF i > Len(a)
    THEN <<>>
    ELSE <<(a[i] \div 2 ^ bits)
           + (Limb(a, i + 1) % 2 ^ bits) * 2 ^ (LimbBits - bits)>>
         \o NatShiftBitsFrom(a, bits, i + 1)

\* a \div 2^n
NatShiftRight(a, n) ==
    NatTrim(NatShiftBitsFrom(a, n % LimbBits, n \div LimbBits + 1))

\* bit n of a, counted from 0
NatBit(a, n) == (Limb(a, n \div LimbBits + 1) \div 2 ^ (n % LimbBits)) % 2

\* a % 2^n # 0
NatLowBits(a, n) ==
    \/ \E i \in 1..Min(n \div LimbBits, Len(a)) : a[i] # 0
    \/ Limb(a, n \div LimbBits + 1) % 2 ^ (n % LimbBits) # 0

\* A positive double is m * 2^e with Two52 <= m < 2 * Two52; FloatZero is 0.0.
MantissaBits == 53
Two52 == NatShiftLeft(<<1>>, MantissaBits - 1)
FloatZero == [m |-> <<>>, e |-> 0]

\* float(n) for an integer 0 <= n < 2^31
FloatOfInt(n) ==
    IF n = 0
    THEN FloatZero
    ELSE LET v == NatOfInt(n)
             k == MantissaBits - NatBitLen(v)
         IN  [m |-> NatShiftLeft(v, k), e |-> 0 - k]

\* The double nearest to v * 2^e, ties to even, for v of more than
\* MantissaBits bits; sticky says that the exact value is above v * 2^e.
FloatRound(v, e, sticky) ==
    LET s == NatBitLen(v) - MantissaBits
        kept == NatShiftRight(v, s)
        guard == NatBit(v, s - 1) = 1
        below == sticky \/ NatLowBits(v, s - 1)
    IN  IF guard /\ (below \/ NatBit(kept, 0) = 1)
        THEN LET up == NatAdd(kept, <<1>>)
             IN  IF NatBitLen(up) > MantissaBits
                 THEN [m |-> Two52, e |-> e + s + 1]
                 ELSE [m |-> up, e |-> e + s]
        ELSE [m |-> kept, e |-> e + s]

\* x * y
FloatMul(x, y) ==
    IF x = FloatZero \/ y = FloatZero
    THEN FloatZero
    ELSE FloatRound(NatMul(x.m, y.m), x.e + y.e, FALSE)

\* One more limb of a quotient by d, for d of DivLimbs limbs with its top bit
\* set: s.q are the limbs so far and s.r < d is the remainder. The limb is
\* at most two below the quotient of the two top limbs of the remainder by
\* the top limb of d (Knuth, TAOCP 4.3.1, Theorem B).
DivLimb(s, d) ==
    LET r == NatShiftLimbs(s.r, 1)
        n == Len(d)
        qhat == Min((Limb(r, n + 1) * LimbBase + Limb(r, n)) \div d[n],
                    LimbBase - 1)
        q == CHOOSE c \in Max(qhat - 2, 0)..qhat :
                 /\ ~NatLess(r, NatMulLimb(d, c))
                 /\ NatLess(r, NatMulLimb(d, c + 1))
    IN  [q |-> <<q>> \o s.q, r |-> NatSub(r, NatMulLimb(d, q))]

\* n more limbs
RECURSIVE DivLimbsFrom(_, _, _)
DivLimbsFrom(s, d, n) ==
    IF n = 0 THEN s
    ELSE IF s.r = <<>>
    THEN DivLimbsFrom([q |-> <<0>> \o s.q, r |-> <<>>], d, n - 1)
    ELSE DivLimbsFrom(DivLimb(s, d), d, n - 1)

\* x / y for y # 0
DivLimbs == 4
FloatDiv(x, y) ==
    IF x = FloatZero
    THEN FloatZero
    ELSE LET shift == DivLimbs * LimbBits - MantissaBits
             d == NatShiftLeft(y.m, shift)
             n == NatShiftLeft(x.m, shift)
             first == IF NatLess(n, d)
                      THEN [q |-> <<>>, r |-> n]
                      ELSE [q |-> <<1>>, r |-> NatSub(n, d)]
             last == DivLimbsFrom(first, d, DivLimbs)
         IN  FloatRound(NatTrim(last.q), x.e - y.e - DivLimbs * LimbBits,
                        last.r # <<>>)

\* x < y
FloatLess(x, y) == x.e < y.e \/ (x.e = y.e /\ NatLess(x.m, y.m))

\* int(x) for 0 <= x < 2^31
FloatToInt(x) ==
    IF x = FloatZero THEN 0 ELSE IntOfNat(NatShiftRight(x.m, 0 - x.e))

(* ---- rate estimator: calculate_next_check_interval ---- *)
\* the literal 0.0000001 is the double nearest to 1 / EpsilonSeconds
EpsilonSeconds == 10000000
Epsilon == FloatDiv(FloatOfInt(1), FloatOfInt(EpsilonSeconds))

\* "safety_factor: float = 0.7", the double nearest to 7 / 10
SafetyFactor == FloatDiv(FloatOfInt(7), FloatOfInt(10))

\* The result: the interval and the time to the threshold, a double (the
\* integer 0 is FloatZero); known = FALSE stands for None.
NoEstimate(interval) ==
    [interval |-> interval, known |-> FALSE, ttt |-> FloatZero]

\* a rate branch without the check of the rate against the epsilon
RateEstimate_NoEpsilon(remaining_gb, threshold_gb, verbrauch_diff_gb, zeit_diff_sekunden, max_interval_seconds, min_interval_seconds) ==
    LET verbrauchsrate_gb_pro_sekunde ==
            FloatDiv(FloatOfInt(verbrauch_diff_gb),
                     FloatOfInt(zeit_diff_sekunden))
        sekunden_bis_schwellenwert ==
            FloatDiv(FloatOfInt(remaining_gb - threshold_gb),
                     verbrauchsrate_gb_pro_sekunde)
        optimales_intervall ==
            FloatToInt(FloatMul(sekunden_bis_schwellenwert, SafetyFactor))
    IN  [interval |-> Max(Min(optimales_intervall, max_interval_seconds),
                          min_interval_seconds),
         known |-> TRUE, ttt |-> sekunden_bis_schwellenwert]

\* a rate branch that caps the interval at the maximum only
RateEstimate_NoLowerClamp(remaining_gb, threshold_gb, verbrauch_diff_gb, zeit_diff_sekunden, max_interval_seconds, min_interval_seconds) ==
    LET verbrauchsrate_gb_pro_sekunde ==
            FloatDiv(FloatOfInt(verbrauch_diff_gb),
                     FloatOfInt(zeit_diff_sekunden))
    IN  IF FloatLess(Epsilon, verbrauchsrate_gb_pro_sekunde)
        THEN LET sekunden_bis_schwellenwert ==
                     FloatDiv(FloatOfInt(remaining_gb - threshold_gb),
                              verbrauchsrate_gb_pro_sekunde)
                 optimales_intervall ==
                     FloatToInt(FloatMul(sekunden_bis_schwellenwert,
                                         SafetyFactor))
             IN  [interval |-> Min(optimales_intervall, max_interval_seconds),
                  known |-> TRUE, ttt |-> sekunden_bis_schwellenwert]
        ELSE NoEstimate(max_interval_seconds)

\* "verbrauchsrate_gb_pro_sekunde = verbrauch_diff_gb / zeit_diff_sekunden"
\* to "return intervall, sekunden_bis_schwellenwert", for a positive time
\* and a positive growth, in the arithmetic of the doubles
RateEstimate(remaining_gb, threshold_gb, verbrauch_diff_gb, zeit_diff_sekunden, max_interval_seconds, min_interval_seconds) ==
    LET verbrauchsrate_gb_pro_sekunde ==
            FloatDiv(FloatOfInt(verbrauch_diff_gb),
                     FloatOfInt(zeit_diff_sekunden))
    IN  IF FloatLess(Epsilon, verbrauchsrate_gb_pro_sekunde)
        THEN LET sekunden_bis_schwellenwert ==
                     FloatDiv(FloatOfInt(remaining_gb - threshold_gb),
                              verbrauchsrate_gb_pro_sekunde)
                 optimales_intervall ==
                     FloatToInt(FloatMul(sekunden_bis_schwellenwert,
                                         SafetyFactor))
             IN  [interval |->
                      Max(Min(optimales_intervall, max_interval_seconds),
                          min_interval_seconds),
                  known |-> TRUE, ttt |-> sekunden_bis_schwellenwert]
        ELSE NoEstimate(max_interval_seconds)

\* an estimator that takes the fast interval strictly below the threshold only
calculate_next_check_interval_StrictBelow(cur, hist, threshold_gb, max_interval_seconds, min_interval_seconds) ==
    LET remaining_gb == Remaining(cur)
    IN  IF remaining_gb < threshold_gb
        THEN [interval |-> min_interval_seconds, known |-> TRUE,
              ttt |-> FloatZero]
        ELSE IF hist = <<>>
        THEN NoEstimate(max_interval_seconds)
        ELSE LET letzte_verbraucht_gb == hist[1].letzte_messung.verbraucht_gb
                 zeit_diff_sekunden ==
                     cur.aktualisiert_timestamp - hist[1].letzte_messung_zeit
                 verbrauch_diff_gb == cur.verbraucht_gb - letzte_verbraucht_gb
             IN  IF zeit_diff_sekunden > 0 /\ verbrauch_diff_gb > 0
                 THEN RateEstimate(remaining_gb, threshold_gb,
                                   verbrauch_diff_gb, zeit_diff_sekunden,
                                   max_interval_seconds, min_interval_seconds)
                 ELSE NoEstimate(max_interval_seconds)

\* cur is the "datenvolumen" of current_data, hist its "letzte_messung" and
\* "letzte_messung_zeit" (<<>> if they are absent)
calculate_next_check_interval(cur, hist, threshold_gb, max_interval_seconds, min_interval_seconds) ==
    LET remaining_gb == Remaining(cur)
    IN  IF remaining_gb <= threshold_gb
        THEN [interval |-> min_interval_seconds, known |-> TRUE,
              ttt |-> FloatZero]
        ELSE IF hist = <<>>
        THEN NoEstimate(max_interval_seconds)
        ELSE LET letzte_verbraucht_gb == hist[1].letzte_messung.verbraucht_gb
                 zeit_diff_sekunden ==
                     cur.aktualisiert_timestamp - hist[1].letzte_messung_zeit
                 verbrauch_diff_gb == cur.verbraucht_gb - letzte_verbraucht_gb
             IN  IF zeit_diff_sekunden > 0 /\ verbrauch_diff_gb > 0
                 THEN RateEstimate(remaining_gb, threshold_gb,
                                   verbrauch_diff_gb, zeit_diff_sekunden,
                                   max_interval_seconds, min_interval_seconds)
                 ELSE NoEstimate(max_interval_seconds)

(* ---- authentication: ControlCenterAuth.login, get_guest_session ---- *)
\* What one authentication can end in. "stored": load_session restored the
\* account's record and the live probe accepted it; "fresh_cookie" /
\* "fresh_nocookie": the login POST was answered, with or without SESSION
\* cookie; "fresh_ok": the guest link led to the portal; "failed": no answer.
LoginOutcomes(st) ==
    {"fresh_cookie", "fresh_nocookie", "failed"}
        \cup (IF Account \in st THEN {"stored"} ELSE {})

GuestOutcomes(st) ==
    {"fresh_ok", "failed"} \cup (IF Account \in st THEN {"stored"} ELSE {})

\* login returns (session, True) or (session, login_response): truthy unless
\* it returned (session, None)
LoginTruthy(o) == o # "failed"

SessionAfterLogin(o, old) ==
    CASE o = "stored" -> (IF guest_url THEN "guest" ELSE "user")
      [] o = "fresh_cookie" -> "user"
      [] o = "fresh_nocookie" -> "anon"
      [] o = "fresh_ok" -> "guest"
      [] OTHER -> old

\* save_session is called by login when the SESSION cookie was found and by
\* create_guest_session when the guest session was created
StoreAfterLogin(o, st) ==
    IF o \in {"fresh_cookie", "fresh_ok"} THEN st \cup {Account} ELSE st

\* get_consumption_summary: the 'ciam-ust' cookie marks a user session
has_ciam_ust_cookie(s) == s = "user"

(* ---- ConsumptionAPI.parse_data_volume ---- *)
\* round(x, 1) of a double x = m * 2^e below 2^31, in tenths: the multiple
\* of 0.1 nearest to the exact value of x, ties to even
RoundToTenths(x) ==
    IF x = FloatZero
    THEN 0
    ELSE LET n == NatMulLimb(x.m, 10)
             k == 0 - x.e
             q == IntOfNat(NatShiftRight(n, k))
             half == NatBit(n, k - 1) = 1
             above == NatLowBits(n, k - 1)
         IN  IF half /\ (above \/ q % 2 = 1) THEN q + 1 ELSE q

\* "round((verbraucht_gb / highspeed_limit_gb) * 100, 1)", in tenths
Percent(verbraucht_gb, highspeed_limit_gb) ==
    RoundToTenths(FloatMul(FloatDiv(FloatOfInt(verbraucht_gb),
                                    FloatOfInt(highspeed_limit_gb)),
                           FloatOfInt(100)))

\* the dictionary "result" as it is initialised; divisions counts the
\* divisions by highspeed_limit_gb that the call performed
ParseDefaults ==
    [highspeed_limit_gb |-> 0, verbraucht_gb |-> 0, verbraucht_prozent |-> 0,
     verbleibend_gb |-> 0, has_ts |-> FALSE, aktualisiert_timestamp |-> 0,
     kann_nachbuchen |-> FALSE, divisions |-> 0]

\* the lines between the choice of data_volume and the calculations
ParseFields(dv, now) ==
    [ParseDefaults EXCEPT
        !.has_ts = dv.dataUpdatedAt # "absent",
        !.aktualisiert_timestamp =
            (CASE dv.dataUpdatedAt = "iso" -> dv.updated
               [] dv.dataUpdatedAt = "other" -> now
               [] OTHER -> 0),
        !.highspeed_limit_gb =
            (IF dv.highSpeedLimit = "value" THEN dv.limit ELSE 0),
        !.verbraucht_gb =
            (IF dv.totalConsumption = "value" THEN dv.consumption ELSE 0),
        !.kann_nachbuchen = dv.refill_action]

\* the calculations without "if result["highspeed_limit_gb"] > 0": the
\* division by a limit of 0 raises ZeroDivisionError, which is caught
Calculations_Unguarded(r) ==
    IF r.highspeed_limit_gb = 0
    THEN [r EXCEPT !.divisions = 1]
    ELSE [r EXCEPT
            !.verbraucht_prozent = Percent(r.verbraucht_gb, r.highspeed_limit_gb),
            !.verbleibend_gb = r.highspeed_limit_gb - r.verbraucht_gb,
            !.divisions = 1]

\* "# Berechnungen"
Calculations(r) ==
    IF r.highspeed_limit_gb > 0
    THEN [r EXCEPT
            !.verbraucht_prozent = Percent(r.verbraucht_gb, r.highspeed_limit_gb),
            !.verbleibend_gb = r.highspeed_limit_gb - r.verbraucht_gb,
            !.divisions = 1]
    ELSE r

\* data.has_dataVolume: the key "dataVolume" is in data; data.dv: the object
\* under that key, or data itself. now is time.time().
parse_data_volume(data, now) ==
    LET is_guest_format ==
            ~data.has_dataVolume /\ data.dv.highSpeedLimit # "absent"
    IN  IF ~is_guest_format /\ ~data.has_dataVolume
        THEN ParseDefaults
        ELSE Calculations(ParseFields(data.dv, now))

ParseIdle == parse_in = <<>> /\ parse_out = <<>>

(* ---- the session store: ControlCenterAuth.save_session, load_session ---- *)
OtherAccount == "other"
StoreAccounts == {Account, OtherAccount}

\* what a session is made of (cookies and headers), as one value
SessionIds == {"s1", "s2"}

\* a key that is not in the dictionary
NoRecord == [session |-> "none", timestamp |-> 0]
NoRecords == [a \in StoreAccounts |-> NoRecord]

\* the values of _create_serializable_session_data, and a value that
\* _restore_session_from_data refuses ("broken": empty or not a dictionary)
Records == [session : SessionIds \cup {"broken"}, timestamp : 1..MaxTs]

\* SESSION_FILE: missing; of size 0; a pickle that ends early (EOFError,
\* UnpicklingError); a pickle whose loading raises another exception; a
\* pickled value that is no dictionary; a pickled dictionary
UnreadableKinds == {"missing", "empty", "truncated", "unloadable", "nondict"}

StoreFiles ==
    {[kind |-> k, sessions |-> NoRecords] : k \in UnreadableKinds}
    \cup {[kind |-> "dict", sessions |-> f] :
             f \in [StoreAccounts -> Records \cup {NoRecord}]}

MissingFile == [kind |-> "missing", sessions |-> NoRecords]

\* save_session that starts from an empty dictionary whatever the file holds
save_session_Fresh(file, sess, username, now, io_ok) ==
    IF sess = "none" \/ ~io_ok
    THEN [file |-> file, ret |-> FALSE, raised |-> FALSE]
    ELSE [file |-> [kind |-> "dict",
                    sessions |-> [NoRecords EXCEPT ![username] =
                                     [session |-> sess, timestamp |-> now]]],
          ret |-> TRUE, raised |-> FALSE]

\* sess is self.session, now is datetime.now(); ~io_ok: the temporary file
\* could not be written (the exception is caught, SESSION_FILE is untouched)
save_session(file, sess, username, now, io_ok) ==
    IF sess = "none" \/ ~io_ok
    THEN [file |-> file, ret |-> FALSE, raised |-> FALSE]
    ELSE LET sessions ==
                 IF file.kind = "dict" THEN file.sessions ELSE NoRecords
         IN  [file |-> [kind |-> "dict",
                        sessions |-> [sessions EXCEPT ![username] =
                                         [session |-> sess, timestamp |-> now]]],
              ret |-> TRUE, raised |-> FALSE]

\* what load_session does once it found the dictionary; probe is the answer
\* of is_session_valid
LoadRecord(file, sess, username, probe) ==
    LET session_data == file.sessions[username]
    IN  IF session_data = NoRecord \/ session_data.session = "broken"
        THEN [file |-> file, session |-> sess, ret |-> FALSE,
              raised |-> FALSE, probed |-> FALSE]
        ELSE [file |-> file, session |-> session_data.session, ret |-> probe,
              raised |-> FALSE, probed |-> TRUE]

NotLoaded(file, sess) ==
    [file |-> file, session |-> sess, ret |-> FALSE, raised |-> FALSE,
     probed |-> FALSE]

\* load_session without its outer "except Exception"
load_session_NoOuterCatch(file, sess, username, probe) ==
    CASE file.kind = "missing" -> NotLoaded(file, sess)
      [] file.kind \in {"empty", "truncated", "nondict"} ->
             NotLoaded(MissingFile, sess)
      [] file.kind = "unloadable" ->
             [NotLoaded(file, sess) EXCEPT !.raised = TRUE]
      [] OTHER -> LoadRecord(file, sess, username, probe)

\* load_session that forgets a record whose session the probe refused
load_session_DropsInvalid(file, sess, username, probe) ==
    CASE file.kind \in {"missing", "unloadable"} -> NotLoaded(file, sess)
      [] file.kind \in {"empty", "truncated", "nondict"} ->
             NotLoaded(MissingFile, sess)
      [] OTHER ->
             LET r == LoadRecord(file, sess, username, probe)
             IN  IF r.probed /\ ~r.ret
                 THEN [r EXCEPT !.file.sessions[username] = NoRecord]
                 ELSE r

load_session(file, sess, username, probe) ==
    CASE file.kind \in {"missing", "unloadable"} -> NotLoaded(file, sess)
      [] file.kind \in {"empty", "truncated", "nondict"} ->
             NotLoaded(MissingFile, sess)
      [] OTHER -> LoadRecord(file, sess, username, probe)

\* no save_session is in progress and no temporary file exists
NotSaving ==
    [step |-> "idle", username |-> Account, temp |-> MissingFile,
     old |-> MissingFile]

StoreIdle ==
    /\ session_file = MissingFile
    /\ auth_session = "none"
    /\ store_calls = <<>>
    /\ saving = NotSaving

MainIdle == main_in = <<>> /\ proc = <<>>

(* ---- the state after DataMonitor.__init__ ---- *)
\* check_interval_seconds is taken from the configuration as it is: a value
\* within [fast, max] and one above max_check_interval_seconds
ConfiguredIntervals == {CheckInterval, MaxInterval + 1}

Init ==
    /\ dynamic_interval \in BOOLEAN
    /\ guest_url \in BOOLEAN
    /\ check_interval_seconds \in ConfiguredIntervals
    /\ original_check_interval_seconds = check_interval_seconds
    /\ est_in = <<>>
    /\ est_out = <<>>
    /\ ParseIdle
    /\ StoreIdle
    /\ MainIdle
    /\ threads = <<>>
    /\ below_threshold = FALSE
    /\ first_dynamic_check = TRUE
    /\ last_check_data = <<>>
    /\ history_data = <<>>
    /\ running = FALSE
    /\ interval_lock = FALSE
    /\ \E st \in SUBSET {Account} :
         \E o \in (IF guest_url THEN GuestOutcomes(st) ELSE LoginOutcomes(st)) :
            /\ session = SessionAfterLogin(o, "none")
            /\ store = StoreAfterLogin(o, st)
    /\ jobs = <<>>
    /\ running_job = 0
    /\ pc = "init"
    /\ ctx = "initial"
    /\ summary = <<>>
    /\ depth = 0
    /\ uci_seconds = 0
    /\ uci_ret = "none"
    /\ result = "none"
    /\ refill_ok = FALSE
    /\ polls = 0
    /\ fetches = 0
    /\ forbidden = 0
    /\ reauths = 0
    /\ refills = 0
    /\ posts = 0
    /\ saves = 0
    /\ interrupted = FALSE

(* ---- start_monitoring, up to the initial check ---- *)
CyclePcs ==
    {"fetch", "login", "aggregations", "process", "update_check_interval",
     "uci_locked", "decide", "refill", "refill_login", "return"}

\* entering check_data_usage: nothing of the cycle has happened yet
BeginCycle ==
    /\ summary' = <<>>
    /\ depth' = 0
    /\ result' = "pending"
    /\ refill_ok' = FALSE
    /\ fetches' = 0
    /\ forbidden' = 0
    /\ reauths' = 0
    /\ refills' = 0
    /\ posts' = 0
    /\ saves' = 0

\* the job registered and running set ahead of the initial check
StartMonitoring_RegistersFirst ==
    /\ pc = "init"
    /\ ~running
    /\ BeginCycle
    /\ polls' = 1
    /\ ctx' = "initial"
    /\ pc' = "fetch"
    /\ jobs' = <<[interval |-> check_interval_seconds,
                  ttl |-> check_interval_seconds]>>
    /\ running' = TRUE
    /\ UNCHANGED <<configVars, monitorState, running_job, interval_lock,
                   session, store, uci_seconds, uci_ret>>

StartMonitoring ==
    /\ pc = "init"
    /\ ~running
    /\ BeginCycle
    /\ polls' = 1
    /\ ctx' = "initial"
    /\ pc' = "fetch"
    /\ UNCHANGED <<configVars, monitorState, scheduleVars, interval_lock,
                   session, store, uci_seconds, uci_ret>>

(* ---- check_data_usage: the snapshot fetch ---- *)
\* "if not summary or 'datenvolumen' not in summary: return failure"
\* a failed fetch that forgets the previous snapshot
FetchFailed_ResetsHistory ==
    /\ summary' = <<>>
    /\ result' = "no_data"
    /\ pc' = "return"
    /\ last_check_data' = <<>>
    /\ history_data' = <<>>
    /\ UNCHANGED <<check_interval_seconds, below_threshold,
                   first_dynamic_check>>

FetchFailed ==
    /\ summary' = <<>>
    /\ result' = "no_data"
    /\ pc' = "return"
    /\ UNCHANGED monitorState

Statuses == {200, 403, 500}

\* one request of get_consumption_aggregations; 500 stands for every other
\* status and for a request that raised
AggregationsRequest(status) ==
    /\ fetches' = fetches + 1
    /\ CASE status = 200 ->
              IF guest_url
              THEN \* credentials["username"] raises KeyError, caught: {}
                   FetchFailed /\ UNCHANGED <<store, forbidden, saves>>
              ELSE \E d \in Snapshots :
                     /\ summary' = <<d>>
                     /\ pc' = "process"
                     /\ store' = store \cup {Account}
                     /\ saves' = saves + 1
                     /\ UNCHANGED <<result, forbidden, monitorState>>
         [] status = 403 ->
              /\ forbidden' = forbidden + 1
              /\ UNCHANGED <<store, saves>>
              /\ IF guest_url
                 THEN FetchFailed
                 ELSE pc' = "login"
                      /\ UNCHANGED <<summary, result, monitorState>>
         [] OTHER -> FetchFailed /\ UNCHANGED <<store, forbidden, saves>>

\* one request of get_guest_consumption_aggregations: any status but 200
\* ends the fetch; no session is saved, nothing is retried
GuestAggregationsRequest(status) ==
    /\ fetches' = fetches + 1
    /\ UNCHANGED <<store, saves>>
    /\ forbidden' = (IF status = 403 THEN forbidden + 1 ELSE forbidden)
    /\ IF status = 200
       THEN \E d \in Snapshots :
              /\ summary' = <<d>>
              /\ pc' = "process"
              /\ UNCHANGED <<result, monitorState>>
       ELSE FetchFailed

\* get_consumption_summary as it would be if a missing session were answered
\* by a new login instead of the failure
GetConsumptionSummary_Reauthenticates ==
    /\ pc = "fetch"
    /\ IF session = "none"
       THEN /\ pc' = "login"
            /\ UNCHANGED <<summary, result, monitorState, store, fetches,
                           forbidden, saves>>
       ELSE IF has_ciam_ust_cookie(session)
       THEN \E status \in Statuses : AggregationsRequest(status)
       ELSE \E status \in Statuses : GuestAggregationsRequest(status)
    /\ UNCHANGED <<configVars, scheduleVars, interval_lock,
                   session, ctx, depth, uci_seconds, uci_ret, refill_ok,
                   polls, reauths, refills, posts>>

GetConsumptionSummary ==
    /\ pc = "fetch"
    /\ IF session = "none"
       THEN FetchFailed /\ UNCHANGED <<store, fetches, forbidden, saves>>
       ELSE IF has_ciam_ust_cookie(session)
       THEN \E status \in Statuses : AggregationsRequest(status)
       ELSE \E status \in Statuses : GuestAggregationsRequest(status)
    /\ UNCHANGED <<configVars, scheduleVars, interval_lock,
                   session, ctx, depth, uci_seconds, uci_ret, refill_ok,
                   polls, reauths, refills, posts>>

\* the 403 branch of get_consumption_aggregations: auth.login, then the
\* recursive call. The recursion ends in RecursionError (caught, {}) at
\* MaxRetryDepth.
ReLogin ==
    /\ pc = "login"
    /\ reauths' = reauths + 1
    /\ \E o \in LoginOutcomes(store) :
         /\ session' = SessionAfterLogin(o, session)
         /\ store' = StoreAfterLogin(o, store)
         /\ IF LoginTruthy(o) /\ depth < MaxRetryDepth
            THEN /\ pc' = "aggregations"
                 /\ depth' = depth + 1
                 /\ UNCHANGED <<summary, result, monitorState>>
            ELSE FetchFailed /\ UNCHANGED depth
    /\ UNCHANGED <<configVars, scheduleVars, interval_lock,
                   ctx, uci_seconds, uci_ret, refill_ok, polls, fetches,
                   forbidden, refills, posts, saves>>

RetryAggregations ==
    /\ pc = "aggregations"
    /\ \E status \in Statuses : AggregationsRequest(status)
    /\ UNCHANGED <<configVars, scheduleVars, interval_lock,
                   session, ctx, depth, uci_seconds, uci_ret, refill_ok,
                   polls, reauths, refills, posts>>

(* ---- check_data_usage: history, interval, decision ---- *)
\* "except Exception as e: ... return {erfolg: False}": whatever the cycle
\* raised, check_data_usage returns a failure and nothing else changes
\* an exception that leaves check_data_usage and ends the loop
CycleException_Propagates ==
    /\ result' = "error"
    /\ pc' = "stopped"
    /\ jobs' = <<>>
    /\ running_job' = 0
    /\ running' = FALSE
    /\ UNCHANGED <<monitorState, interval_lock, uci_seconds, uci_ret>>

CycleException ==
    /\ result' = "error"
    /\ pc' = "return"
    /\ UNCHANGED <<monitorState, scheduleVars, interval_lock, uci_seconds,
                   uci_ret>>

\* "aktualisiert_timestamp - letzte_aktualisiert_timestamp" raises TypeError
\* when either snapshot carries aktualisiert_timestamp = None
TimestampRaises(s) ==
    /\ last_check_data # <<>>
    /\ (~s.has_ts \/ ~last_check_data[1].has_ts)

\* a history whose time is taken from the current snapshot
HistoryAfter_CurrentTime(s) ==
    IF last_check_data # <<>>
    THEN <<[letzte_messung |-> last_check_data[1],
            letzte_messung_zeit |-> s.aktualisiert_timestamp]>>
    ELSE history_data

\* "self.history_data[...] = ..." under the lock: the previous snapshot and
\* its upstream update time
HistoryAfter(s) ==
    IF last_check_data # <<>>
    THEN <<[letzte_messung |-> last_check_data[1],
            letzte_messung_zeit |-> last_check_data[1].aktualisiert_timestamp]>>
    ELSE history_data

\* the call of update_check_interval(seconds), to return to `ret`
CallUpdateCheckInterval(seconds, ret) ==
    /\ uci_seconds' = seconds
    /\ uci_ret' = ret
    /\ pc' = "update_check_interval"

\* "if self.dynamic_interval: with self.interval_lock: ..." The lock is still
\* held when update_check_interval is called.
DynamicInterval(s) ==
    /\ ~interval_lock
    /\ interval_lock' = TRUE
    /\ first_dynamic_check' = FALSE
    /\ CallUpdateCheckInterval(
           IF first_dynamic_check
           THEN InitialInterval
           ELSE calculate_next_check_interval(s, HistoryAfter(s), ThresholdGb,
                                              MaxInterval, FastInterval).interval,
           "decide")
    /\ UNCHANGED <<below_threshold, check_interval_seconds>>

\* a fast interval re-armed in every cycle below the threshold
FixedInterval_LevelTriggered(s) ==
    LET below == Remaining(s) < ThresholdGb
    IN  /\ UNCHANGED <<interval_lock, first_dynamic_check,
                       check_interval_seconds>>
        /\ below_threshold' = below
        /\ IF below
           THEN CallUpdateCheckInterval(FastInterval, "decide")
           ELSE IF below_threshold
           THEN CallUpdateCheckInterval(original_check_interval_seconds,
                                        "decide")
           ELSE /\ pc' = "decide"
                /\ UNCHANGED <<uci_seconds, uci_ret>>

\* "Alte Logik für nicht-dynamische Intervalle": the two edges
FixedInterval(s) ==
    LET below == Remaining(s) < ThresholdGb
    IN  /\ UNCHANGED <<interval_lock, first_dynamic_check,
                       check_interval_seconds>>
        /\ IF below /\ ~below_threshold
           THEN /\ below_threshold' = TRUE
                /\ CallUpdateCheckInterval(FastInterval, "decide")
           ELSE IF ~below /\ below_threshold
           THEN /\ below_threshold' = FALSE
                /\ CallUpdateCheckInterval(original_check_interval_seconds, "decide")
           ELSE /\ pc' = "decide"
                /\ UNCHANGED <<below_threshold, uci_seconds, uci_ret>>

ProcessSnapshot ==
    /\ pc = "process"
    /\ LET s == summary[1]
       IN  IF TimestampRaises(s)
           THEN CycleException
           ELSE /\ history_data' = HistoryAfter(s)
                /\ last_check_data' = <<s>>
                /\ IF dynamic_interval THEN DynamicInterval(s)
                                        ELSE FixedInterval(s)
                /\ UNCHANGED <<scheduleVars, result>>
    /\ UNCHANGED <<configVars, session, store, ctx, summary, depth, refill_ok,
                   counterVars>>

\* update_check_interval: "with self.interval_lock:" waits until the lock is
\* free
AcquireIntervalLock ==
    /\ pc = "update_check_interval"
    /\ ~interval_lock
    /\ interval_lock' = TRUE
    /\ pc' = "uci_locked"
    /\ UNCHANGED <<configVars, monitorState, scheduleVars, session, store,
                   ctx, summary, depth, uci_seconds, uci_ret, result,
                   refill_ok, counterVars>>

\* an update that arms the new job without schedule.clear()
UpdateCheckInterval_KeepsOldJob ==
    /\ pc = "uci_locked"
    /\ check_interval_seconds' = uci_seconds
    /\ IF running
       THEN /\ jobs' = Append(jobs, [interval |-> uci_seconds,
                                     ttl |-> uci_seconds])
            /\ running_job' = running_job
       ELSE UNCHANGED <<jobs, running_job>>
    /\ interval_lock' = FALSE
    /\ pc' = uci_ret
    /\ UNCHANGED <<configVars, below_threshold, first_dynamic_check,
                   last_check_data, history_data, running, session, store,
                   ctx, summary, depth, uci_seconds, uci_ret, result,
                   refill_ok, counterVars>>

\* the body of update_check_interval, run with the lock held; the "with"
\* block ends with it and releases the lock
UpdateCheckInterval ==
    /\ pc = "uci_locked"
    /\ check_interval_seconds' = uci_seconds
    /\ IF running
       THEN /\ jobs' = <<[interval |-> uci_seconds, ttl |-> uci_seconds]>>
            /\ running_job' = 0
       ELSE UNCHANGED <<jobs, running_job>>
    /\ interval_lock' = FALSE
    /\ pc' = uci_ret
    /\ UNCHANGED <<configVars, below_threshold, first_dynamic_check,
                   last_check_data, history_data, running, session, store,
                   ctx, summary, depth, uci_seconds, uci_ret, result,
                   refill_ok, counterVars>>

\* the decision table of check_data_usage
\* a table that refills below the threshold only
Decision_BelowOnly(below, kann_nachbuchen) ==
    IF below /\ kann_nachbuchen THEN "refill"
    ELSE IF below /\ ~kann_nachbuchen THEN "refill_unavailable"
    ELSE "no_action"

Decision(below, kann_nachbuchen) ==
    IF below /\ kann_nachbuchen THEN "refill"
    ELSE IF below /\ ~kann_nachbuchen THEN "refill_unavailable"
    ELSE IF kann_nachbuchen THEN "refill"
    ELSE "no_action"

DecideAction ==
    /\ pc = "decide"
    /\ LET s == summary[1]
           d == Decision(Remaining(s) < ThresholdGb, s.kann_nachbuchen)
       IN  IF d = "refill"
           THEN /\ refills' = refills + 1
                /\ depth' = 0
                /\ pc' = "refill"
                /\ UNCHANGED result
           ELSE /\ result' = d
                /\ pc' = "return"
                /\ UNCHANGED <<refills, depth>>
    /\ UNCHANGED <<configVars, monitorState, scheduleVars, interval_lock,
                   session, store, ctx, summary, uci_seconds, uci_ret,
                   refill_ok, polls, fetches, forbidden, reauths, posts,
                   saves>>

(* ---- the refill: DataMonitor / ConsumptionAPI.increase_highspeed_volume ---- *)
\* a refill whose success leaves the fast interval engaged
RefillDone_KeepsFast(ok) ==
    /\ refill_ok' = ok
    /\ result' = "refilled"
    /\ pc' = "return"
    /\ UNCHANGED <<below_threshold, uci_seconds, uci_ret>>

\* a successful refill that clears the flag and leaves the interval
RefillDone_FlagOnly(ok) ==
    /\ refill_ok' = ok
    /\ result' = "refilled"
    /\ pc' = "return"
    /\ below_threshold' = (IF ok THEN FALSE ELSE below_threshold)
    /\ UNCHANGED <<uci_seconds, uci_ret>>

\* a refill that ends the fast interval whether it succeeded or not
RefillDone_ResetsAlways(ok) ==
    /\ refill_ok' = ok
    /\ result' = "refilled"
    /\ IF below_threshold
       THEN /\ below_threshold' = FALSE
            /\ CallUpdateCheckInterval(original_check_interval_seconds, "return")
       ELSE /\ pc' = "return"
            /\ UNCHANGED <<below_threshold, uci_seconds, uci_ret>>

\* DataMonitor.increase_highspeed_volume once the portal client returned
\* {erfolg: ok}: a successful refill ends the fast interval at once
RefillDone(ok) ==
    /\ refill_ok' = ok
    /\ result' = "refilled"
    /\ IF ok /\ below_threshold
       THEN /\ below_threshold' = FALSE
            /\ CallUpdateCheckInterval(original_check_interval_seconds, "return")
       ELSE /\ pc' = "return"
            /\ UNCHANGED <<below_threshold, uci_seconds, uci_ret>>

RefillStatuses == {204, 400, 403, 500}

\* one pass of ConsumptionAPI.increase_highspeed_volume up to its answer:
\* the CSRF token is fetched, then the POST is sent
IncreaseHighspeedVolume ==
    /\ pc = "refill"
    /\ IF session = "none"
       THEN RefillDone(FALSE) /\ UNCHANGED <<store, posts, saves>>
       ELSE \E csrf_token \in BOOLEAN :
              IF ~csrf_token
              THEN RefillDone(FALSE) /\ UNCHANGED <<store, posts, saves>>
              ELSE /\ posts' = posts + 1
                   /\ \E status \in RefillStatuses :
                        CASE status = 204 ->
                               /\ store' = store \cup {Account}
                               /\ saves' = saves + 1
                               /\ RefillDone(TRUE)
                          [] status = 403 ->
                               /\ pc' = "refill_login"
                               /\ UNCHANGED <<store, saves, refill_ok, result,
                                              below_threshold, uci_seconds,
                                              uci_ret>>
                          [] OTHER -> RefillDone(FALSE)
                                      /\ UNCHANGED <<store, saves>>
    /\ UNCHANGED <<configVars, check_interval_seconds, first_dynamic_check,
                   last_check_data, history_data, scheduleVars, interval_lock,
                   session, ctx, summary, depth, polls, fetches, forbidden,
                   reauths, refills>>

\* the 403 branch of ConsumptionAPI.increase_highspeed_volume: auth.login or
\* auth.get_guest_session, then the recursive call
RefillReLogin ==
    /\ pc = "refill_login"
    /\ reauths' = reauths + 1
    /\ \E o \in (IF guest_url THEN GuestOutcomes(store)
                              ELSE LoginOutcomes(store)) :
         /\ session' = SessionAfterLogin(o, session)
         /\ store' = StoreAfterLogin(o, store)
         /\ IF LoginTruthy(o) /\ depth < MaxRetryDepth
            THEN /\ pc' = "refill"
                 /\ depth' = depth + 1
                 /\ UNCHANGED <<refill_ok, result, below_threshold,
                                uci_seconds, uci_ret>>
            ELSE RefillDone(FALSE) /\ UNCHANGED depth
    /\ UNCHANGED <<configVars, check_interval_seconds, first_dynamic_check,
                   last_check_data, history_data, scheduleVars, interval_lock,
                   ctx, summary, polls, fetches, forbidden, refills, posts,
                   saves>>

(* ---- start_monitoring after the initial check; the schedule loop ---- *)
Job(seconds) == [interval |-> seconds, ttl |-> seconds]

\* check_data_usage has returned: its locals and the per-cycle counts are gone
EndCycle ==
    /\ summary' = <<>>
    /\ depth' = 0
    /\ uci_seconds' = 0
    /\ uci_ret' = "none"
    /\ fetches' = 0
    /\ forbidden' = 0
    /\ reauths' = 0
    /\ refills' = 0
    /\ posts' = 0
    /\ saves' = 0

\* "schedule.every(...).seconds.do(self.check_data_usage); self.running = True"
RegisterJob ==
    /\ pc = "return"
    /\ ctx = "initial"
    /\ IF dynamic_interval
       THEN /\ ~interval_lock
            /\ jobs' = Append(jobs, Job(InitialInterval))
       ELSE jobs' = Append(jobs, Job(check_interval_seconds))
    /\ running' = TRUE
    /\ pc' = "loop"
    /\ EndCycle
    /\ UNCHANGED <<configVars, monitorState, interval_lock, session, store,
                   running_job, ctx, result, refill_ok, polls>>

\* check_data_usage returns into schedule's Job.run, which sets the job's next
\* run; a job removed by schedule.clear() meanwhile is no longer in the list
JobFinished ==
    /\ pc = "return"
    /\ ctx = "scheduled"
    /\ jobs' = (IF running_job # 0
                THEN [jobs EXCEPT ![running_job].ttl = jobs[running_job].interval]
                ELSE jobs)
    /\ running_job' = 0
    /\ pc' = "sleep"
    /\ EndCycle
    /\ UNCHANGED <<configVars, monitorState, running, interval_lock, session,
                   store, ctx, result, refill_ok, polls>>

Due == {i \in 1..Len(jobs) : jobs[i].ttl = 0}

\* "while self.running: schedule.run_pending()"
RunPending ==
    /\ pc = "loop"
    /\ running
    /\ IF Due # {}
       THEN /\ running_job' = CHOOSE i \in Due : \A j \in Due : i <= j
            /\ BeginCycle
            /\ polls' = Min(polls + 1, PollCap)
            /\ ctx' = "scheduled"
            /\ pc' = "fetch"
       ELSE /\ pc' = "sleep"
            /\ UNCHANGED <<running_job, ctx, summary, depth, result,
                           refill_ok, counterVars>>
    /\ UNCHANGED <<configVars, monitorState, jobs, running, interval_lock,
                   session, store, uci_seconds, uci_ret>>

\* "time.sleep(1)": every pending job is one second nearer
Sleep ==
    /\ pc = "sleep"
    /\ jobs' = [i \in 1..Len(jobs) |->
                   [jobs[i] EXCEPT !.ttl = Max(jobs[i].ttl - 1, 0)]]
    /\ pc' = "loop"
    /\ UNCHANGED <<configVars, monitorState, running, running_job,
                   interval_lock, session, store, ctx, summary, depth,
                   uci_seconds, uci_ret, result, refill_ok, counterVars>>

(* ---- KeyboardInterrupt and stop_monitoring ---- *)
\* a stop that leaves the schedule as it is
stop_monitoring_KeepsJobs ==
    /\ running_job' = 0
    /\ running' = FALSE
    /\ UNCHANGED jobs

stop_monitoring ==
    /\ jobs' = <<>>
    /\ running_job' = 0
    /\ running' = FALSE

InLoop ==
    \/ pc \in {"loop", "sleep"}
    \/ pc \in CyclePcs /\ ctx = "scheduled"

\* raised inside "try: while self.running: ...": it passes check_data_usage
\* ("except Exception" does not catch it; a "with" block releases the lock)
\* and is caught by start_monitoring, which stops and returns
InterruptInLoop ==
    /\ InLoop
    /\ interval_lock' = FALSE
    /\ stop_monitoring
    /\ pc' = "stopped"
    /\ interrupted' = TRUE
    /\ EndCycle
    /\ UNCHANGED <<dynamic_interval, guest_url, original_check_interval_seconds, unitVars,
                   monitorState, session, store, ctx, result,
                   refill_ok, polls>>

\* raised during the initial check, before the "try": it leaves
\* start_monitoring
InterruptBeforeLoop ==
    /\ pc \in CyclePcs
    /\ ctx = "initial"
    /\ interval_lock' = FALSE
    /\ pc' = "aborted"
    /\ interrupted' = TRUE
    /\ EndCycle
    /\ UNCHANGED <<dynamic_interval, guest_url, original_check_interval_seconds, unitVars,
                   monitorState, scheduleVars, session, store,
                   ctx, result, refill_ok, polls>>

Next ==
    \/ StartMonitoring
    \/ GetConsumptionSummary
    \/ ReLogin
    \/ RetryAggregations
    \/ ProcessSnapshot
    \/ AcquireIntervalLock
    \/ UpdateCheckInterval
    \/ DecideAction
    \/ IncreaseHighspeedVolume
    \/ RefillReLogin
    \/ RegisterJob
    \/ JobFinished
    \/ RunPending
    \/ Sleep
    \/ InterruptInLoop
    \/ InterruptBeforeLoop

Spec == Init /\ [][Next]_vars

\* The steps of the main thread other than a KeyboardInterrupt. The thread is
\* the only one, so it takes a step whenever one is possible.
MainStep ==
    \/ StartMonitoring
    \/ GetConsumptionSummary
    \/ ReLogin
    \/ RetryAggregations
    \/ ProcessSnapshot
    \/ AcquireIntervalLock
    \/ UpdateCheckInterval
    \/ DecideAction
    \/ IncreaseHighspeedVolume
    \/ RefillReLogin
    \/ RegisterJob
    \/ JobFinished
    \/ RunPending
    \/ Sleep

LiveSpec == Spec /\ WF_vars(MainStep)

(* ---- calculate_next_check_interval on its own ---- *)
\* upstream update times and wall-clock times: near ones, and one so late
\* that a growth of one GB since time 1 is a rate of exactly the epsilon
EstTimes == (1..MaxTs) \cup {EpsilonSeconds + 1}

\* "max_interval_seconds: int = 300", "min_interval_seconds: int = 30"
DefaultMaxInterval == 300
DefaultMinInterval == 30

\* calls of the estimator with the same arguments
EstCalls == 2

\* The "datenvolumen" of the call: with an update time, without the key
\* "aktualisiert_timestamp", and the defaults of parse_data_volume (the key
\* holds None: has_ts = FALSE).
EstCurrent ==
    [verbraucht_gb : 0..HighspeedLimit, highspeed_limit_gb : {HighspeedLimit},
     has_key : {TRUE}, has_ts : {TRUE}, aktualisiert_timestamp : EstTimes]
    \cup
    [verbraucht_gb : 0..HighspeedLimit, highspeed_limit_gb : {HighspeedLimit},
     has_key : {FALSE}, has_ts : {FALSE}, aktualisiert_timestamp : {0}]
    \cup
    {[verbraucht_gb |-> 0, highspeed_limit_gb |-> 0, has_key |-> TRUE,
      has_ts |-> FALSE, aktualisiert_timestamp |-> 0]}

\* 4 GB, then 300 seconds later 5 GB of 20 GB, threshold 2 GB, at most one
\* hour between two polls
ScenarioA ==
    [cur |-> [verbraucht_gb |-> 5, highspeed_limit_gb |-> 20,
              has_key |-> TRUE, has_ts |-> TRUE,
              aktualisiert_timestamp |-> 301],
     hist |-> <<[letzte_messung |-> [verbraucht_gb |-> 4],
                 letzte_messung_zeit |-> 1]>>,
     threshold_gb |-> 2,
     max_interval_seconds |-> 3600,
     min_interval_seconds |-> DefaultMinInterval]

EstInputs ==
    [cur : EstCurrent,
     hist : {<<>>} \cup
            {<<[letzte_messung |-> [verbraucht_gb |-> v],
                letzte_messung_zeit |-> z]>> :
                v \in 0..HighspeedLimit, z \in EstTimes},
     threshold_gb : {0, ThresholdGb},
     max_interval_seconds : {MaxInterval, DefaultMaxInterval},
     min_interval_seconds : {FastInterval, DefaultMinInterval}]
    \cup {ScenarioA}

\* no DataMonitor is running: a function is called on its own
NoMonitor ==
    /\ dynamic_interval = TRUE
    /\ guest_url = FALSE
    /\ check_interval_seconds = CheckInterval
    /\ original_check_interval_seconds = CheckInterval
    /\ below_threshold = FALSE
    /\ first_dynamic_check = TRUE
    /\ last_check_data = <<>>
    /\ history_data = <<>>
    /\ running = FALSE
    /\ interval_lock = FALSE
    /\ session = "none"
    /\ store = {}
    /\ jobs = <<>>
    /\ running_job = 0
    /\ ctx = "initial"
    /\ summary = <<>>
    /\ depth = 0
    /\ uci_seconds = 0
    /\ uci_ret = "none"
    /\ result = "none"
    /\ refill_ok = FALSE
    /\ polls = 0
    /\ fetches = 0
    /\ forbidden = 0
    /\ reauths = 0
    /\ refills = 0
    /\ posts = 0
    /\ saves = 0
    /\ interrupted = FALSE

EstIdle == est_in = <<>> /\ est_out = <<>>

\* a caller about to call calculate_next_check_interval with est_in
EstInit ==
    /\ est_in \in EstInputs
    /\ est_out = <<>>
    /\ ParseIdle
    /\ StoreIdle
    /\ MainIdle
    /\ threads = <<>>
    /\ pc = "estimator"
    /\ NoMonitor

\* "data_volume.get("aktualisiert_timestamp", time.time())" at the
\* wall-clock time now
WithTimestamp(cur, now) ==
    IF cur.has_key THEN cur ELSE [cur EXCEPT !.aktualisiert_timestamp = now]

\* one call with the arguments est_in at some wall-clock time
Estimate ==
    /\ pc = "estimator"
    /\ Len(est_out) < EstCalls
    /\ \E now \in EstTimes :
           est_out' = Append(est_out,
               calculate_next_check_interval(
                   WithTimestamp(est_in.cur, now), est_in.hist,
                   est_in.threshold_gb, est_in.max_interval_seconds,
                   est_in.min_interval_seconds))
    /\ UNCHANGED <<dynamic_interval, guest_url, interrupted,
                   original_check_interval_seconds, est_in, parseVars,
                   storeVars, mainVars, threads, monitorState,
                   scheduleVars, interval_lock, session, store, pc, ctx,
                   summary, depth, uci_seconds, uci_ret, result, refill_ok,
                   counterVars>>

EstNext == Estimate

EstSpec == EstInit /\ [][EstNext]_vars

(* ---- parse_data_volume on its own ---- *)
\* "highSpeedLimit" / "totalConsumption": the key is absent, holds an object
\* without "value", or holds a value (whole GB); "dataUpdatedAt": absent, an
\* ISO date, or a string that fromisoformat refuses
DataVolumes ==
    [highSpeedLimit : {"absent", "novalue", "value"},
     limit : {0, HighspeedLimit},
     totalConsumption : {"absent", "novalue", "value"},
     consumption : 0..HighspeedLimit,
     dataUpdatedAt : {"absent", "iso", "other"},
     updated : 1..MaxTs,
     refill_action : BOOLEAN]

ParseInputs == [has_dataVolume : BOOLEAN, dv : DataVolumes]

ParseInit ==
    /\ parse_in \in ParseInputs
    /\ parse_out = <<>>
    /\ EstIdle
    /\ StoreIdle
    /\ MainIdle
    /\ threads = <<>>
    /\ pc = "parser"
    /\ NoMonitor

Parse ==
    /\ pc = "parser"
    /\ parse_out = <<>>
    /\ \E now \in 1..MaxTs :
           parse_out' = <<parse_data_volume(parse_in, now)>>
    /\ UNCHANGED <<dynamic_interval, guest_url, interrupted,
                   original_check_interval_seconds, estVars, parse_in,
                   storeVars, mainVars, threads, monitorState, scheduleVars, interval_lock,
                   session, store, pc, ctx, summary, depth, uci_seconds,
                   uci_ret, result, refill_ok, counterVars>>

ParseNext == Parse

ParseSpec == ParseInit /\ [][ParseNext]_vars

(* ---- save_session and load_session on their own ---- *)
\* calls made on one auth object
StoreCalls == 2

StoreInit ==
    /\ session_file \in StoreFiles
    /\ auth_session \in {"none"} \cup SessionIds
    /\ store_calls = <<>>
    /\ saving = NotSaving
    /\ EstIdle
    /\ ParseIdle
    /\ MainIdle
    /\ threads = <<>>
    /\ pc = "store"
    /\ NoMonitor

StoreFrame ==
    UNCHANGED <<dynamic_interval, guest_url, interrupted,
                original_check_interval_seconds, estVars, parseVars,
                mainVars, threads, monitorState, scheduleVars, interval_lock, session, store,
                pc, ctx, summary, depth, uci_seconds, uci_ret, result,
                refill_ok, counterVars>>

SaveSession ==
    /\ pc = "store"
    /\ saving.step = "idle"
    /\ Len(store_calls) < StoreCalls
    /\ \E username \in StoreAccounts, now \in 1..MaxTs, io_ok \in BOOLEAN :
         LET r == save_session(session_file, auth_session, username, now, io_ok)
         IN  /\ session_file' = r.file
             /\ store_calls' = Append(store_calls,
                    [op |-> "save", username |-> username,
                     found |-> session_file.kind, ret |-> r.ret,
                     raised |-> r.raised, probed |-> FALSE, probe |-> FALSE,
                     session |-> auth_session])
    /\ UNCHANGED <<auth_session, saving>>
    /\ StoreFrame

LoadSession ==
    /\ pc = "store"
    /\ saving.step = "idle"
    /\ Len(store_calls) < StoreCalls
    /\ \E username \in StoreAccounts, probe \in BOOLEAN :
         LET r == load_session(session_file, auth_session, username, probe)
         IN  /\ session_file' = r.file
             /\ auth_session' = r.session
             /\ store_calls' = Append(store_calls,
                    [op |-> "load", username |-> username,
                     found |-> session_file.kind, ret |-> r.ret,
                     raised |-> r.raised, probed |-> r.probed,
                     probe |-> probe, session |-> r.session])
    /\ UNCHANGED saving
    /\ StoreFrame

StoreNext == SaveSession \/ LoadSession

StoreSpec == StoreInit /\ [][StoreNext]_vars

(* ---- save_session step by step, and what an interruption leaves ---- *)
\* "with open(temp_file, "wb") as f: pickle.dump(sessions, f)": the
\* dictionary with the new record is in SESSION_FILE.tmp
WriteTempFile ==
    /\ pc = "store"
    /\ saving.step = "idle"
    /\ Len(store_calls) < StoreCalls
    /\ auth_session # "none"
    /\ \E username \in StoreAccounts, now \in 1..MaxTs :
         saving' = [step |-> "temp_written", username |-> username,
                    temp |-> save_session(session_file, auth_session,
                                          username, now, TRUE).file,
                    old |-> session_file]
    /\ UNCHANGED <<session_file, auth_session, store_calls>>
    /\ StoreFrame

\* "if os.path.exists(self.SESSION_FILE): os.remove(self.SESSION_FILE)"
RemoveOldFile ==
    /\ pc = "store"
    /\ saving.step = "temp_written"
    /\ session_file' = MissingFile
    /\ saving' = [saving EXCEPT !.step = "old_removed"]
    /\ UNCHANGED <<auth_session, store_calls>>
    /\ StoreFrame

\* "os.rename(temp_file, self.SESSION_FILE); return True"
RenameTempFile ==
    /\ pc = "store"
    /\ saving.step = "old_removed"
    /\ session_file' = saving.temp
    /\ saving' = NotSaving
    /\ store_calls' = Append(store_calls,
           [op |-> "save", username |-> saving.username,
            found |-> saving.old.kind, ret |-> TRUE, raised |-> FALSE,
            probed |-> FALSE, probe |-> FALSE, session |-> auth_session])
    /\ UNCHANGED auth_session
    /\ StoreFrame

\* a KeyboardInterrupt (which "except Exception" lets pass) or the end of
\* the process after a step of the save: the files stay as they are
InterruptSave ==
    /\ pc = "store"
    /\ saving.step \in {"temp_written", "old_removed"}
    /\ saving' = [saving EXCEPT !.step = "idle"]
    /\ store_calls' = Append(store_calls,
           [op |-> "save_interrupted", username |-> saving.username,
            found |-> saving.old.kind, ret |-> FALSE, raised |-> TRUE,
            probed |-> FALSE, probe |-> FALSE, session |-> auth_session])
    /\ UNCHANGED <<session_file, auth_session>>
    /\ StoreFrame

SaveNext ==
    \/ WriteTempFile
    \/ RemoveOldFile
    \/ RenameTempFile
    \/ InterruptSave
    \/ LoadSession

SaveSpec == StoreInit /\ [][SaveNext]_vars

(* ---- main and monitor_data_usage: from the start of the process to its end ---- *)
\* An argument is None ("none"), an empty string or a value; a variable of
\* the environment is missing, empty or holds a value.
ArgValues == {"none", "empty", "given"}
EnvValues == {"missing", "empty", "given"}

MainInputs ==
    [contract_id : {"none", "given"}, CONTROL_CENTER_CONTRACT_IDS : EnvValues,
     guest_url : ArgValues, GUEST_URL : EnvValues,
     username : ArgValues, CONTROL_CENTER_USERNAME : EnvValues,
     password : ArgValues, CONTROL_CENTER_PASSWORD : EnvValues,
     env_numbers_ok : BOOLEAN]

\* "if x is None: x = os.getenv(...)"
FromEnv(arg, env) == IF arg = "none" THEN env ELSE arg

\* monitor_data_usage that asks for nothing but the contract id
Configuration_NoCredentialCheck(in) ==
    IF FromEnv(in.contract_id, in.CONTROL_CENTER_CONTRACT_IDS) # "given"
    THEN "none"
    ELSE IF FromEnv(in.guest_url, in.GUEST_URL) = "given"
    THEN "guest"
    ELSE "credentials"

\* the checks of monitor_data_usage: "none" when it returns None, else the
\* authentication it chooses
Configuration(in) ==
    IF FromEnv(in.contract_id, in.CONTROL_CENTER_CONTRACT_IDS) # "given"
    THEN "none"
    ELSE IF FromEnv(in.guest_url, in.GUEST_URL) = "given"
    THEN "guest"
    ELSE IF FromEnv(in.username, in.CONTROL_CENTER_USERNAME) # "given"
            \/ FromEnv(in.password, in.CONTROL_CENTER_PASSWORD) # "given"
    THEN "none"
    ELSE "credentials"

\* stage: where main is; monitor: a DataMonitor was constructed; logins:
\* authentications attempted; checks: check_data_usage calls, counted up to
\* PollCap; ended: why main is over; exit_code: -1 while it runs
Started == [stage |-> "main", monitor |-> FALSE, logins |-> 0, checks |-> 0,
            ended |-> "no", exit_code |-> 0 - 1]

Exited(p, why, code) ==
    [p EXCEPT !.stage = "exited", !.ended = why, !.exit_code = code]

MainInit ==
    /\ main_in \in MainInputs
    /\ proc = Started
    /\ EstIdle
    /\ ParseIdle
    /\ StoreIdle
    /\ threads = <<>>
    /\ pc = "main"
    /\ NoMonitor

MainFrame ==
    UNCHANGED <<dynamic_interval, guest_url, interrupted,
                original_check_interval_seconds, estVars, parseVars,
                storeVars, main_in, threads, monitorState, scheduleVars, interval_lock,
                session, store, pc, ctx, summary, depth, uci_seconds, uci_ret,
                result, refill_ok, counterVars>>

\* monitor_data_usage up to the construction of the monitor: it returns None
\* and main calls sys.exit(1); or int() / float() of a variable of the
\* environment raises ValueError, which main answers with sys.exit(1)
ReadConfiguration ==
    /\ pc = "main"
    /\ proc.stage = "main"
    /\ proc' = (IF Configuration(main_in) = "none"
                THEN Exited(proc, "configuration", 1)
                ELSE IF ~main_in.env_numbers_ok
                THEN Exited(proc, "error", 1)
                ELSE [proc EXCEPT !.stage = "construct"])
    /\ MainFrame

\* DataMonitor.__init__ with its set_session call; a KeyboardInterrupt
\* raised meanwhile reaches main, which logs it and ends
ConstructMonitor ==
    /\ pc = "main"
    /\ proc.stage = "construct"
    /\ \E ki \in BOOLEAN :
         proc' = (IF ki
                  THEN Exited([proc EXCEPT !.logins = 1], "interrupted", 0)
                  ELSE [proc EXCEPT !.stage = "start", !.monitor = TRUE,
                                    !.logins = 1])
    /\ MainFrame

\* start_monitoring up to the loop: the initial check is outside the "try"
InitialCheck ==
    /\ pc = "main"
    /\ proc.stage = "start"
    /\ \E ki \in BOOLEAN :
         proc' = (IF ki
                  THEN Exited([proc EXCEPT !.checks = 1], "interrupted", 0)
                  ELSE [proc EXCEPT !.stage = "loop", !.checks = 1])
    /\ MainFrame

\* one pass of the loop of start_monitoring: a check may run; a
\* KeyboardInterrupt or another exception is caught there, stop_monitoring
\* is called, the monitor is returned and main ends
MonitoringLoop ==
    /\ pc = "main"
    /\ proc.stage = "loop"
    /\ \E event \in {"check", "interrupt", "error"} :
         proc' = (CASE event = "check" ->
                         [proc EXCEPT !.checks = Min(proc.checks + 1, PollCap)]
                    [] event = "interrupt" -> Exited(proc, "interrupted", 0)
                    [] OTHER -> Exited(proc, "stopped", 0))
    /\ MainFrame

MainNext ==
    \/ ReadConfiguration
    \/ ConstructMonitor
    \/ InitialCheck
    \/ MonitoringLoop

MainSpec == MainInit /\ [][MainNext]_vars

(* ---- stop_monitoring overlapping update_check_interval ---- *)
\* A running monitor is used by two threads: one is inside a cycle (or any
\* other caller) and calls update_check_interval, the other calls
\* stop_monitoring; start_monitoring is called again afterwards. Each
\* statement of the two methods is one step. A monitor that has reached
\* its loop is not in dynamic mode (the initial check of a dynamic monitor
\* does not return).
UpdateCalls == 2

\* the intervals check_data_usage passes to update_check_interval outside
\* dynamic mode
UpdateArguments == {FastInterval, original_check_interval_seconds}

StopInit ==
    /\ dynamic_interval = FALSE
    /\ guest_url = FALSE
    /\ original_check_interval_seconds = CheckInterval
    /\ check_interval_seconds \in {CheckInterval, FastInterval}
    /\ below_threshold = (check_interval_seconds = FastInterval
                          /\ FastInterval # CheckInterval)
    /\ first_dynamic_check = TRUE
    /\ last_check_data = <<>>
    /\ history_data = <<>>
    /\ running = TRUE
    /\ interval_lock = FALSE
    /\ session = "user"
    /\ store = {}
    /\ \E ttl \in 1..check_interval_seconds :
         jobs = <<[interval |-> check_interval_seconds, ttl |-> ttl]>>
    /\ running_job = 0
    /\ ctx = "scheduled"
    /\ summary = <<>>
    /\ depth = 0
    /\ uci_seconds = 0
    /\ uci_ret = "none"
    /\ result = "none"
    /\ refill_ok = FALSE
    /\ polls = 0
    /\ fetches = 0
    /\ forbidden = 0
    /\ reauths = 0
    /\ refills = 0
    /\ posts = 0
    /\ saves = 0
    /\ interrupted = FALSE
    /\ EstIdle
    /\ ParseIdle
    /\ StoreIdle
    /\ MainIdle
    /\ threads = [upd |-> "idle", stop |-> "idle", seconds |-> 0, calls |-> 0]
    /\ pc = "threads"

StopFrame ==
    /\ pc = "threads"
    /\ UNCHANGED <<dynamic_interval, guest_url, interrupted,
                   original_check_interval_seconds, estVars, parseVars,
                   storeVars, mainVars, below_threshold, first_dynamic_check,
                   last_check_data, history_data, running_job, session,
                   store, pc, ctx, summary, depth, uci_seconds, uci_ret,
                   result, refill_ok, counterVars>>

\* "with self.interval_lock:" of update_check_interval
Uci_Acquire ==
    /\ StopFrame
    /\ threads.upd = "idle"
    /\ threads.calls < UpdateCalls
    /\ interval_lock = FALSE
    /\ interval_lock' = TRUE
    /\ \E seconds \in UpdateArguments :
         threads' = [threads EXCEPT !.upd = "locked", !.seconds = seconds,
                                    !.calls = @ + 1]
    /\ UNCHANGED <<check_interval_seconds, jobs, running>>

\* "if not self.running: self.check_interval_seconds = seconds; return"
Uci_TestRunning ==
    /\ StopFrame
    /\ threads.upd = "locked"
    /\ IF ~running
       THEN /\ check_interval_seconds' = threads.seconds
            /\ interval_lock' = FALSE
            /\ threads' = [threads EXCEPT !.upd = "idle"]
       ELSE /\ threads' = [threads EXCEPT !.upd = "clear"]
            /\ UNCHANGED <<check_interval_seconds, interval_lock>>
    /\ UNCHANGED <<jobs, running>>

\* "schedule.clear()" of update_check_interval
Uci_Clear ==
    /\ StopFrame
    /\ threads.upd = "clear"
    /\ jobs' = <<>>
    /\ threads' = [threads EXCEPT !.upd = "assign"]
    /\ UNCHANGED <<check_interval_seconds, interval_lock, running>>

\* "self.check_interval_seconds = seconds"
Uci_Assign ==
    /\ StopFrame
    /\ threads.upd = "assign"
    /\ check_interval_seconds' = threads.seconds
    /\ threads' = [threads EXCEPT !.upd = "every"]
    /\ UNCHANGED <<jobs, interval_lock, running>>

\* "schedule.every(seconds).seconds.do(self.check_data_usage)" and the end
\* of the "with" block
Uci_Every ==
    /\ StopFrame
    /\ threads.upd = "every"
    /\ jobs' = Append(jobs, [interval |-> threads.seconds,
                             ttl |-> threads.seconds])
    /\ interval_lock' = FALSE
    /\ threads' = [threads EXCEPT !.upd = "idle"]
    /\ UNCHANGED <<check_interval_seconds, running>>

\* "schedule.clear()" of stop_monitoring: no lock is taken
Stop_Clear ==
    /\ StopFrame
    /\ threads.stop = "idle"
    /\ jobs' = <<>>
    /\ threads' = [threads EXCEPT !.stop = "cleared"]
    /\ UNCHANGED <<check_interval_seconds, interval_lock, running>>

\* "self.running = False" and the return of stop_monitoring
Stop_SetRunning ==
    /\ StopFrame
    /\ threads.stop = "cleared"
    /\ running' = FALSE
    /\ threads' = [threads EXCEPT !.stop = "returned"]
    /\ UNCHANGED <<check_interval_seconds, interval_lock, jobs>>

\* a start_monitoring after the stop, outside dynamic mode: the initial
\* check leaves the interval or sets it through update_check_interval
\* (which needs the lock and, the monitor not running, only assigns), then
\* one job is added to the schedule and running is set
Restart ==
    /\ StopFrame
    /\ threads.stop = "returned"
    /\ ~running
    /\ \E updated \in BOOLEAN :
         IF updated
         THEN /\ interval_lock = FALSE
              /\ \E seconds \in UpdateArguments :
                   /\ check_interval_seconds' = seconds
                   /\ jobs' = Append(jobs, [interval |-> seconds,
                                            ttl |-> seconds])
         ELSE /\ check_interval_seconds' = check_interval_seconds
              /\ jobs' = Append(jobs, [interval |-> check_interval_seconds,
                                       ttl |-> check_interval_seconds])
    /\ running' = TRUE
    /\ threads' = [threads EXCEPT !.stop = "restarted"]
    /\ UNCHANGED interval_lock

StopNext ==
    \/ Uci_Acquire
    \/ Uci_TestRunning
    \/ Uci_Clear
    \/ Uci_Assign
    \/ Uci_Every
    \/ Stop_Clear
    \/ Stop_SetRunning
    \/ Restart

StopSpec == StopInit /\ [][StopNext]_vars

(* ======================= the claims ======================= *)
BelowThreshold(s) == Remaining(s) < ThresholdGb
FetchPcs == {"fetch", "login", "aggregations"}
BetweenCycles == pc \in {"loop", "sleep"}

\* C1: every invocation of check_data_usage returns: while it is in
\* progress the thread can take its next step; it never waits for
\* interval_lock without end.
C1_CheckDataUsageReturns ==
    pc \in CyclePcs => ENABLED MainStep

\* C2: a cycle whose fetch succeeded with remaining < threshold_gb and
\* can_refill has invoked the refill exactly once when it is over (returned,
\* or unable to go on), and never more than once.
C2_RefillOncePerCycle ==
    (pc \in CyclePcs /\ summary # <<>>
        /\ BelowThreshold(summary[1]) /\ summary[1].kann_nachbuchen)
    => /\ refills <= 1
       /\ (pc = "return" \/ ~ENABLED MainStep) => refills = 1

\* C3: a poll that returns a result for its snapshot followed the decision
\* table: the refill was invoked exactly when can_refill, below the threshold
\* or not; below the threshold without can_refill it reports that the refill
\* is not possible; otherwise nothing was done.
C3_DecisionTable ==
    (pc = "return" /\ result \in {"refilled", "refill_unavailable", "no_action"})
    => LET s == summary[1]
       IN  /\ summary # <<>>
           /\ refills = (IF s.kann_nachbuchen THEN 1 ELSE 0)
           /\ s.kann_nachbuchen => result = "refilled"
           /\ (BelowThreshold(s) /\ ~s.kann_nachbuchen)
                  => result = "refill_unavailable"
           /\ (~BelowThreshold(s) /\ ~s.kann_nachbuchen)
                  => result = "no_action"

C3_RefillAheadOfThreshold ==
    /\ pc = "return"
    /\ result = "refilled"
    /\ summary # <<>>
    /\ ~BelowThreshold(summary[1])
    /\ summary[1].kann_nachbuchen
    /\ refills = 1

\* C4: the fetch of one cycle re-authenticates at most once and sends at most
\* two snapshot requests, however often the portal answers 403.
C4_OneReauthTwoFetches ==
    pc \in FetchPcs \cup {"process"} => (reauths <= 1 /\ fetches <= 2)

\* C5: a monitor configured with a guest link whose snapshot request was
\* answered 403 has re-authenticated once and sent the request a second time
\* when the cycle returns.
C5_GuestReauthOn403 ==
    (guest_url /\ pc = "return" /\ forbidden >= 1)
    => (reauths = 1 /\ fetches = 2)

\* C6: while the fetch of a cycle (its re-authentication included) is in
\* progress the monitor state is not touched and no refill is invoked; a
\* fetch that ends without data makes the cycle return a failure at once.
C6_FailedFetchChangesNothing ==
    [][(pc \in FetchPcs) =>
         ( (UNCHANGED monitorState)
           /\ (refills' = 0)
           /\ ((summary' = <<>> /\ pc' \notin FetchPcs /\ ~interrupted')
                  => (pc' = "return" /\ result' = "no_data"))
           /\ ((pc' = "return") => (summary' = <<>> /\ result' = "no_data")) )]_vars

C6_FailedAfterReauth ==
    /\ pc = "return"
    /\ result = "no_data"
    /\ reauths >= 1
    /\ last_check_data # <<>>
    /\ below_threshold

\* C7: a cycle that raises returns a failure, with the interval, the running
\* flag and the schedule as they were; after it the loop goes on with one job
\* pending.
C7_ExceptionIsCaught ==
    /\ [][(pc = "process" /\ TimestampRaises(summary[1]) /\ ~interrupted')
            => ( result' = "error" /\ pc' = "return"
                 /\ UNCHANGED <<check_interval_seconds, running, jobs>> )]_vars
    /\ [][(pc = "return" /\ result = "error" /\ ~interrupted')
            => ( BetweenCycles' /\ running' /\ Len(jobs') = 1
                 /\ UNCHANGED check_interval_seconds )]_vars

C7_LoopGoesOnAfterException ==
    /\ pc = "sleep"
    /\ result = "error"
    /\ running
    /\ Len(jobs) = 1

\* C8: polling recurs for ever: every completed cycle of a running monitor is
\* followed by another cycle that runs to completion, unless an interrupt is
\* raised, in dynamic and in non-dynamic mode.
C8_PollingRecurs ==
    (BetweenCycles /\ running) ~> (pc = "return" \/ interrupted)

\* C9: during the initial check no job is registered, the monitor is not
\* running and the check is the first one; when the check returns, the next
\* step registers the job, sets running and enters the loop, with exactly
\* that one check done.
C9_InitialPollFirst ==
    /\ []((pc \in CyclePcs /\ ctx = "initial")
             => (jobs = <<>> /\ ~running /\ polls = 1))
    /\ []((Len(jobs) > 0 \/ running)
             => (pc # "init" /\ ~(pc \in CyclePcs /\ ctx = "initial")))
    /\ []((BetweenCycles /\ ctx = "initial")
             => (running /\ Len(jobs) = 1 /\ polls = 1))
    /\ [][(pc = "return" /\ ctx = "initial" /\ ~interrupted')
            => (pc' = "loop" /\ running' /\ Len(jobs') = 1 /\ polls' = 1)]_vars

C9_RefillBeforeFirstJob ==
    /\ pc = "loop"
    /\ ctx = "initial"
    /\ polls = 1
    /\ result = "refilled"
    /\ refill_ok
    /\ Len(jobs) = 1

\* C10: an interrupt raised in the loop leaves the monitor stopped: no job in
\* the schedule, running False, start_monitoring returned; nothing happens
\* afterwards.
C10_InterruptStops ==
    /\ [][(InLoop /\ interrupted')
            => (pc' = "stopped" /\ jobs' = <<>> /\ ~running')]_vars
    /\ [][(pc = "stopped")
            => (pc' = "stopped" /\ jobs' = <<>> /\ polls' = polls)]_vars

C10_StoppedDuringScheduledPoll ==
    /\ pc = "stopped"
    /\ interrupted
    /\ polls >= 2
    /\ jobs = <<>>
    /\ ~running
    /\ last_check_data # <<>>

\* C11: the body of update_check_interval stores its argument; while running
\* it leaves exactly one job, with that period, and while not running it
\* leaves the schedule as it is; between two cycles of a running monitor
\* exactly one job is pending.
C11_OnePendingJob ==
    /\ []((BetweenCycles /\ running) => Len(jobs) = 1)
    /\ [][(pc = "uci_locked" /\ ~interrupted')
            => ( check_interval_seconds' = uci_seconds
                 /\ (running => jobs' = <<Job(uci_seconds)>>)
                 /\ (~running => (jobs' = jobs /\ jobs' = <<>>)) )]_vars

C11_RearmedWhileRunning ==
    /\ pc = "decide"
    /\ ctx = "scheduled"
    /\ running
    /\ uci_ret = "decide"
    /\ below_threshold
    /\ check_interval_seconds = FastInterval
    /\ jobs = <<Job(FastInterval)>>
    /\ running_job = 0
    /\ original_check_interval_seconds # FastInterval

\* C12: every step that writes check_interval_seconds, below_threshold or
\* first_dynamic_check is taken with interval_lock held (held before it, or
\* acquired by it).
C12_FlagsUnderLock ==
    [][(check_interval_seconds' # check_interval_seconds
          \/ below_threshold' # below_threshold
          \/ first_dynamic_check' # first_dynamic_check)
        => (interval_lock \/ interval_lock')]_vars

\* C13: in non-dynamic mode a poll that returns a result without a successful
\* refill leaves check_interval_seconds at the fast interval if its snapshot
\* is below the threshold and at the original interval otherwise; the poll
\* calls update_check_interval exactly when its finding differs from
\* below_threshold, and then the flag changes.
C13_Hysteresis ==
    /\ []((~dynamic_interval /\ pc = "return"
             /\ result \in {"refilled", "refill_unavailable", "no_action"}
             /\ ~(result = "refilled" /\ refill_ok))
           => check_interval_seconds =
                  (IF BelowThreshold(summary[1]) THEN FastInterval
                   ELSE original_check_interval_seconds))
    /\ [][(~dynamic_interval /\ pc = "process"
             /\ ~TimestampRaises(summary[1]) /\ ~interrupted')
            => ( ((pc' = "update_check_interval")
                     <=> (BelowThreshold(summary[1]) # below_threshold))
                 /\ ((pc' = "update_check_interval")
                     => (below_threshold' # below_threshold)) )]_vars

C13_StaysBelowWithoutReschedule ==
    /\ ~dynamic_interval
    /\ pc = "decide"
    /\ ctx = "scheduled"
    /\ uci_ret = "none"
    /\ below_threshold
    /\ BelowThreshold(summary[1])
    /\ check_interval_seconds = FastInterval
    /\ jobs = <<[interval |-> FastInterval, ttl |-> 0]>>

\* C14: in non-dynamic mode a cycle that returns after a successful refill
\* has below_threshold cleared and the original interval in force; a refill
\* that succeeds while below_threshold is set clears it and calls
\* update_check_interval(original) at once; as long as the refill has not
\* succeeded, the flag, the interval and the schedule are left alone.
C14_RefillResetsInterval ==
    /\ []((~dynamic_interval /\ pc = "return" /\ result = "refilled"
             /\ refill_ok)
           => (~below_threshold
               /\ check_interval_seconds = original_check_interval_seconds))
    /\ [][(~dynamic_interval /\ pc \in {"refill", "refill_login"}
             /\ refill_ok' /\ below_threshold)
            => ( ~below_threshold' /\ pc' = "update_check_interval"
                 /\ uci_seconds' = original_check_interval_seconds
                 /\ uci_ret' = "return" )]_vars
    /\ [][(~dynamic_interval /\ pc \in {"refill", "refill_login"}
             /\ ~refill_ok' /\ ~interrupted')
            => UNCHANGED <<below_threshold, check_interval_seconds, jobs>>]_vars

C14_ResetInSameCycle ==
    /\ ~dynamic_interval
    /\ pc = "return"
    /\ ctx = "scheduled"
    /\ result = "refilled"
    /\ refill_ok
    /\ uci_ret = "return"
    /\ ~below_threshold
    /\ BelowThreshold(summary[1])
    /\ original_check_interval_seconds # FastInterval
    /\ jobs = <<Job(original_check_interval_seconds)>>

\* C15: in dynamic mode, once a poll has cleared first_dynamic_check the
\* interval becomes initial_dynamic_interval_seconds (unless an interrupt is
\* raised), and the job registered at startup has that period.
C15_FirstPollUsesInitial ==
    /\ [][(dynamic_interval /\ pc = "return" /\ ctx = "initial"
             /\ ~interrupted')
            => jobs' = <<Job(InitialInterval)>>]_vars
    /\ ((dynamic_interval /\ ~first_dynamic_check)
           ~> (interrupted \/ check_interval_seconds = InitialInterval))

\* C16: in dynamic mode, after the first successful poll (first_dynamic_check
\* cleared) polls go on returning, unless an interrupt is raised, and a poll
\* that returns with a snapshot and without an error has set
\* check_interval_seconds to what calculate_next_check_interval returns for
\* the previous and the current snapshot, with the job re-armed at that
\* period.
C16_LaterPollsUseEstimator ==
    (dynamic_interval /\ ~first_dynamic_check)
      ~> \/ interrupted
         \/ /\ pc = "return"
            /\ \/ summary = <<>>
               \/ result = "error"
               \/ /\ history_data # <<>>
                  /\ LET next_interval ==
                             calculate_next_check_interval(
                                 summary[1], history_data, ThresholdGb,
                                 MaxInterval, FastInterval).interval
                     IN  /\ check_interval_seconds = next_interval
                         /\ running => jobs = <<Job(next_interval)>>

C18_IntervalWithinBounds ==
    dynamic_interval
      => (FastInterval <= check_interval_seconds
          /\ check_interval_seconds <= MaxInterval)

\* C19: calculate_next_check_interval returns (min_interval_seconds, 0)
\* whenever limit - consumed <= threshold_gb, whatever the history is.
C19_AtOrBelowThresholdIsMin ==
    \A k \in DOMAIN est_out :
        Remaining(est_in.cur) <= est_in.threshold_gb
        => ( est_out[k].interval = est_in.min_interval_seconds
             /\ est_out[k].known
             /\ est_out[k].ttt = FloatZero )

C19_AtThresholdWithNewerHistory ==
    /\ est_out # <<>>
    /\ est_in.threshold_gb > 0
    /\ Remaining(est_in.cur) = est_in.threshold_gb
    /\ est_in.hist # <<>>
    /\ est_in.cur.has_ts
    /\ est_in.hist[1].letzte_messung_zeit > est_in.cur.aktualisiert_timestamp
    /\ est_in.hist[1].letzte_messung.verbraucht_gb > est_in.cur.verbraucht_gb
    /\ est_out[1].interval = est_in.min_interval_seconds
    /\ est_out[1].known

FloatIsRatio(x, num, den) ==
    IF x.e <= 0
    THEN NatMul(x.m, NatOfInt(den)) = NatShiftLeft(NatOfInt(num), 0 - x.e)
    ELSE NatShiftLeft(NatMul(x.m, NatOfInt(den)), x.e) = NatOfInt(num)

\* the call has a previous measurement, a later update time, a growth and a
\* rate above the epsilon
EstHasRate ==
    /\ est_in.cur.has_key
    /\ est_in.hist # <<>>
    /\ Remaining(est_in.cur) > est_in.threshold_gb
    /\ est_in.cur.aktualisiert_timestamp > est_in.hist[1].letzte_messung_zeit
    /\ est_in.cur.verbraucht_gb > est_in.hist[1].letzte_messung.verbraucht_gb
    /\ (est_in.cur.verbraucht_gb
          - est_in.hist[1].letzte_messung.verbraucht_gb) * EpsilonSeconds
         > est_in.cur.aktualisiert_timestamp
             - est_in.hist[1].letzte_messung_zeit

\* C21: with remaining > threshold and rate > epsilon, the returned time to
\* the threshold is (remaining - threshold) / rate, that is
\* (remaining - threshold) * (updated_cur - updated_prev)
\* / (consumed_cur - consumed_prev), and the returned interval is that time
\* times 7/10, truncated and clamped to [min, max]: 3900 s and
\* clamp(2730, min, max) for 2.0 -> 2.5 GB over 300 s of 10 GB, threshold 1.
C21_ExactTimeAndInterval ==
    \A k \in DOMAIN est_out :
        EstHasRate
        => LET num == (Remaining(est_in.cur) - est_in.threshold_gb)
                        * (est_in.cur.aktualisiert_timestamp
                             - est_in.hist[1].letzte_messung_zeit)
               den == est_in.cur.verbraucht_gb
                        - est_in.hist[1].letzte_messung.verbraucht_gb
           IN  /\ est_out[k].known
               /\ FloatIsRatio(est_out[k].ttt, num, den)
               /\ est_out[k].interval
                     = Max(Min((7 * num) \div (10 * den),
                               est_in.max_interval_seconds),
                           est_in.min_interval_seconds)

\* C22: for min_interval_seconds <= max_interval_seconds the returned
\* interval is within [min_interval_seconds, max_interval_seconds] on every
\* branch: at or below the threshold, insufficient data, computed rate.
C22_ReturnedIntervalWithinBounds ==
    \A k \in DOMAIN est_out :
        est_in.min_interval_seconds <= est_in.max_interval_seconds
        => ( est_in.min_interval_seconds <= est_out[k].interval
             /\ est_out[k].interval <= est_in.max_interval_seconds )

\* a computed rate whose interval of 0 seconds was raised to the minimum
C22_RaisedToMinimum ==
    /\ est_out # <<>>
    /\ EstHasRate
    /\ est_in.min_interval_seconds <= est_in.max_interval_seconds
    /\ est_out[1].known
    /\ FloatToInt(FloatMul(est_out[1].ttt, SafetyFactor)) = 0
    /\ est_out[1].interval = est_in.min_interval_seconds

C24_ZeroedSnapshotIsInsufficientData ==
    \A k \in DOMAIN est_out :
        (est_in.cur.highspeed_limit_gb = 0 /\ est_in.cur.verbraucht_gb = 0
           /\ ~est_in.cur.has_ts /\ est_in.cur.has_key)
        => ( est_out[k].interval = est_in.max_interval_seconds
             /\ ~est_out[k].known )

\* the limit that parse_data_volume finds in its argument is 0 or absent
LimitZeroOrMissing(data) ==
    data.dv.highSpeedLimit # "value" \/ data.dv.limit = 0

\* C25: parse_data_volume for an upstream highspeed limit of 0, or without
\* a limit, returns verbraucht_prozent = 0 and verbleibend_gb = 0 and has
\* not divided by the limit.
C25_ZeroLimitNoDivision ==
    (parse_out # <<>> /\ LimitZeroOrMissing(parse_in))
    => /\ parse_out[1].verbraucht_prozent = 0
       /\ parse_out[1].verbleibend_gb = 0
       /\ parse_out[1].divisions = 0

\* a consumption of some GB reported together with a limit of 0 was parsed
C25_ParsedZeroLimit ==
    /\ parse_out # <<>>
    /\ parse_in.has_dataVolume
    /\ parse_in.dv.highSpeedLimit = "value"
    /\ parse_in.dv.limit = 0
    /\ parse_in.dv.totalConsumption = "value"
    /\ parse_in.dv.consumption > 0
    /\ parse_out[1].verbraucht_gb > 0

\* the call that a step of save_session or load_session has made
LastCall == store_calls'[Len(store_calls')]
CallMade(op) ==
    /\ Len(store_calls') = Len(store_calls) + 1
    /\ LastCall.op = op

\* C26: load_session returns False and raises nothing when the store file
\* is missing, empty, cannot be unpickled, is no dictionary, or holds no
\* record for the account: no session is reported as loaded.
C26_LoadToleratesBadStore ==
    [][( (/\ CallMade("load")
          /\ \/ session_file.kind \in UnreadableKinds
             \/ session_file.sessions[LastCall.username] = NoRecord)
         => (~LastCall.ret /\ ~LastCall.raised) )]_vars

\* load_session has met a file that ends early, removed it, and was called
\* again without a file
C26_LoadedFromBadStore ==
    /\ Len(store_calls) = StoreCalls
    /\ store_calls[1].op = "load"
    /\ store_calls[1].found = "truncated"
    /\ ~store_calls[1].ret
    /\ store_calls[2].op = "load"
    /\ store_calls[2].found = "missing"
    /\ ~store_calls[2].ret

\* the stores agree on every account's session, whatever the timestamps
SameUpToTimestamp(f, g) ==
    /\ f.kind = g.kind
    /\ \A a \in StoreAccounts : f.sessions[a].session = g.sessions[a].session

C28_InvalidSessionKeepsRecord ==
    [][( (CallMade("load") /\ LastCall.probed /\ ~LastCall.probe)
         => (~LastCall.ret /\ session_file' = session_file) )]_vars

\* a restored session was refused by the probe
C28_ProbeRefused ==
    /\ store_calls # <<>>
    /\ LET c == store_calls[Len(store_calls)]
       IN  /\ c.op = "load"
           /\ c.probed
           /\ ~c.probe
           /\ ~c.ret
           /\ session_file.kind = "dict"
           /\ session_file.sessions[c.username] # NoRecord

\* a step in which a snapshot request was answered 200, or a refill
\* request 204
SnapshotAnswered200 == pc \in {"fetch", "aggregations"} /\ pc' = "process"
RefillAnswered204 == pc = "refill" /\ posts' = posts + 1 /\ refill_ok'

\* C29: after every successful portal request (snapshot answered 200,
\* refill answered 204) the account's record in the store is overwritten
\* with the current session: save_session is called for the account,
\* credential account or guest link alike.
C29_SavedAfterEverySuccess ==
    [][( (SnapshotAnswered200 \/ RefillAnswered204)
         => (saves' = saves + 1 /\ Account \in store') )]_vars

\* a step in which a refill request was answered 400 (or with any status
\* but 204 and 403, which ConsumptionAPI.increase_highspeed_volume treats
\* alike)
RefillRejected ==
    /\ pc = "refill"
    /\ posts' = posts + 1
    /\ pc' # "refill_login"
    /\ ~refill_ok'

RefillReportedFailed ==
    /\ result' = "refilled"
    /\ ~refill_ok'
    /\ pc' = "return"
    /\ UNCHANGED <<below_threshold, check_interval_seconds>>

\* C30 as stated: when the portal rejects a refill with 400, the refill is
\* reported as failed, exactly one refill request was sent in that cycle,
\* and below_threshold and the check interval are unchanged.
C30_DeniedRefillSentOnce ==
    [][( RefillRejected => (RefillReportedFailed /\ posts' = 1) )]_vars

\* C30: when the portal rejects a refill request with 400, the refill is
\* reported as failed and no further refill request is sent in that cycle:
\* the requests sent are that one and those answered 403 before it, each
\* followed by a re-authentication; below_threshold and the check interval
\* are unchanged.
C30_DeniedRefillNotRetried ==
    [][( /\ RefillRejected => (RefillReportedFailed /\ posts' = depth + 1)
         /\ pc = "return" => (posts' = posts \/ posts' = 0) )]_vars

\* the only refill request of a cycle below the threshold was rejected
C30_RefillRejectedOnce ==
    /\ pc = "return"
    /\ result = "refilled"
    /\ ~refill_ok
    /\ posts = 1
    /\ reauths = 0
    /\ below_threshold

\* C31: one refill call (ConsumptionAPI.increase_highspeed_volume, its
\* repetitions after 403 included) re-authenticates at most once and sends
\* at most two refill requests; a refill that failed is reported and the
\* cycle returns.
C31_OneRefillRetry ==
    (refills = 1 /\ pc \in {"refill", "refill_login", "return"})
    => (posts <= 2 /\ depth <= 1)

\* no contract id on the command line or in the environment, or neither a
\* guest link nor a username together with a password
NoContractId(in) ==
    FromEnv(in.contract_id, in.CONTROL_CENTER_CONTRACT_IDS) # "given"
NoAuthentication(in) ==
    /\ FromEnv(in.guest_url, in.GUEST_URL) # "given"
    /\ \/ FromEnv(in.username, in.CONTROL_CENTER_USERNAME) # "given"
       \/ FromEnv(in.password, in.CONTROL_CENTER_PASSWORD) # "given"

NoUpdateTime ==
    \/ ~summary[1].has_ts
    \/ (last_check_data # <<>> /\ ~last_check_data[1].has_ts)

\* C33: a poll whose snapshot has no upstream update time, or whose
\* predecessor had none, goes through the history update and on to the
\* interval computation and the refill decision: the snapshot becomes the
\* stored one and the cycle does not end in an error there, so such
\* snapshots cannot make the later cycles fail.
C33_PollWithoutUpdateTime ==
    [][( (pc = "process" /\ NoUpdateTime /\ ~interrupted')
         => (result' # "error" /\ last_check_data' = <<summary[1]>>) )]_vars

\* C34: in non-dynamic mode, between two cycles, below_threshold is set
\* exactly when the fast interval is in force (the fast interval differs
\* from the configured one).
C34_FlagMatchesInterval ==
    (~dynamic_interval /\ BetweenCycles
        /\ FastInterval # original_check_interval_seconds)
    => (below_threshold <=> check_interval_seconds = FastInterval)

\* the fast interval was engaged by one poll and is in force while the
\* monitor waits for the next
C34_FastBetweenCycles ==
    /\ ~dynamic_interval
    /\ BetweenCycles
    /\ polls = PollCap
    /\ below_threshold
    /\ check_interval_seconds = FastInterval
    /\ result = "refilled"
    /\ ~refill_ok

\* C36: the callers of a credential login take it as successful only if
\* the SESSION cookie was found or a stored session passed the probe: the
\* portal client never holds a session of a login without SESSION cookie
\* ("anon"), and the 403 path repeats the request only with a user session.
C36_LoginNeedsSessionCookie ==
    /\ [](session # "anon")
    /\ [][( (pc = "login" /\ pc' = "aggregations") => session' = "user" )]_vars

\* C37: when save_session is interrupted after one of its steps, the
\* store file holds the complete previous contents or the complete new
\* contents; the interrupted save has not made the file disappear.
C37_InterruptedSaveKeepsStore ==
    [][( CallMade("save_interrupted")
         => (session_file' = saving.old \/ session_file' = saving.temp) )]_vars

\* C38: whenever calculate_next_check_interval reports the threshold as
\* reached (time to threshold 0, the minimum interval), the monitor's own
\* test of the same snapshot against the same threshold,
\* "remaining_gb < self.threshold_gb", says below threshold, also when the
\* remaining volume equals the threshold.
C38_EstimatorAgreesWithMonitor ==
    \A k \in DOMAIN est_out :
        (/\ est_out[k].known
         /\ est_out[k].ttt = FloatZero
         /\ est_out[k].interval = est_in.min_interval_seconds)
        => Remaining(est_in.cur) < est_in.threshold_gb

\* C39: when the authentication at construction failed (no session), every
\* later poll fails without a portal request and without a new
\* authentication, the session stays missing and no snapshot is ever
\* obtained or stored.
C39_NoSessionNoRequests ==
    /\ [](session = "none"
            => /\ fetches = 0 /\ reauths = 0 /\ posts = 0
               /\ summary = <<>> /\ last_check_data = <<>>
               /\ (pc = "return" => result = "no_data"))
    /\ [][( session = "none"
            => /\ session' = "none"
               /\ ((pc = "fetch" /\ ~interrupted')
                      => (pc' = "return" /\ result' = "no_data")) )]_vars

\* a monitor without a session has polled up to the cap and is between cycles
C39_PolledWithoutSession ==
    /\ session = "none"
    /\ polls = PollCap
    /\ result = "no_data"
    /\ BetweenCycles

\* C35: once stop_monitoring has returned, no job is scheduled and running
\* is False, also when an update_check_interval call of another thread
\* overlaps the stop; a start_monitoring after it begins with exactly one
\* job.
C35_StopLeavesNothingScheduled ==
    /\ []((threads # <<>> /\ threads.stop = "returned")
            => (jobs = <<>> /\ ~running))
    /\ [][( (threads # <<>> /\ threads.stop = "returned"
             /\ threads'.stop = "restarted")
            => Len(jobs') = 1 )]_vars

====
